---- MODULE Spec2Model ----
(***************************************************************************)
(* projScan: the scan orchestration and persistence subsystem.             *)
(*   core/configManager.py  ConfigManager   (Config Store)                 *)
(*   core/machines.py       ComputerManager (Device Store)                 *)
(*   core/services.py       ServiceManager  (Service Registry)             *)
(*   core/scanner.py        Scanner         (Scan Orchestrator)            *)
(*   core/storage.py        update_machine_info (helper on the device file)*)
(*   utils/singleton.py     Singleton       (the shared instances)         *)
(*                                                                         *)
(* Python values are modelled as follows.  A dict whose order is observed  *)
(* (the config, the run's results) is a record [keys, map]: keys is the    *)
(* insertion order, map the mapping.  A dict whose order no code observes  *)
(* (the device store and its records) is a function.  A JSON file is       *)
(* [kind, value]; kind is "json" (decodable, value is the decoded          *)
(* document), "absent", "corrupt" or "unreadable".  A value that is not a  *)
(* dict where one is expected is the                                       *)
(* record [scalar |-> v].  Timestamps are readings of an integer clock.    *)
(***************************************************************************)
EXTENDS Integers, Sequences, FiniteSets, TLC

VARIABLES
    config,            \* ConfigManager.config
    config_file,       \* contents of data/config.json
    computers,         \* ComputerManager.computers
    machines_file,     \* contents of data/machines.json
    services_data,     \* ServiceManager.services_data
    services_file,     \* contents of data/services.json
    write_failures,    \* number of file writes the file system has refused
    ret,               \* what the last call returned: [op, value, saved]
    log,               \* levels of the records the last call logged
    manager,           \* the shared instance the caller drives
    github_uploader,   \* Scanner.github_uploader is set (an uploader exists)
    clock,             \* the wall clock (datetime.now())
    pc,                \* position of Scanner.run: "idle", "collect", "export";
                       \* "new" while the driven instance is not constructed
    save,              \* run's argument save
    upload_to_github,  \* run's argument upload_to_github: "True", "False", "None"
    enabled_services,  \* run's local enabled_services
    idx,               \* position of the for loop in enabled_services
    results,           \* run's local results
    trace,             \* per collector of this run: stage reached, options
                       \* given to the constructor, what collect() returned
    store_calls,       \* add_computer calls made by this run
    upload,            \* the batch this run handed to the uploader, if any
    returned,          \* the dict get_all_computers gave its caller
    threads,           \* callers of storage.update_machine_info: position
                       \* and locals of each
    singletons         \* per decorated class: Singleton.instance and the
                       \* number of objects its constructor has yielded

cfg_vars == <<config, config_file>>
dev_vars == <<computers, machines_file>>
reg_vars == <<services_data, services_file>>
caller_vars == <<returned, threads, singletons>>
core_vars == <<manager, github_uploader, clock, pc, save, upload_to_github,
               enabled_services, idx, results, trace, store_calls, upload>>
run_vars == <<manager, github_uploader, clock, save, upload_to_github,
              enabled_services, idx, results, trace, store_calls, upload,
              caller_vars>>
scan_vars == <<core_vars, caller_vars>>
vars == <<config, config_file, computers, machines_file, services_data,
          services_file, write_failures, ret, log, manager, github_uploader,
          clock, pc,
          save, upload_to_github, enabled_services, idx, results, trace,
          store_calls, upload, returned, threads, singletons>>

----------------------------------------------------------------------------
(* Bounds of the model *)

MaxWriteFailures == 1

(* Last reading of the clock a run may start at plus its collectors *)
MaxClock == 2

(* Objects a decorated class's constructor may yield in a behaviour *)
MaxConstructions == 2

(* Names a caller may use for a collector: CPU is in the default catalog,  *)
(* NET is not.                                                             *)
ServiceNames == {"CPU", "NET"}

(* Device identifiers *)
Identifiers == {"m1", "m2"}

----------------------------------------------------------------------------
(* Python dict primitives *)

EmptyDict == [k \in {} |-> TRUE]

(* {**a, **b} and a.update(b): b wins key by key *)
DictMerge(a, b) ==
    [k \in (DOMAIN a) \cup (DOMAIN b) |-> IF k \in DOMAIN b THEN b[k] ELSE a[k]]

(* d[k] = v *)
DictPut(d, k, v) == DictMerge(d, [x \in {k} |-> v])

(* del d[k] *)
DictDrop(d, k) == [x \in (DOMAIN d) \ {k} |-> d[x]]

(* isinstance(v, dict): a value that is not a dict is [scalar |-> v] *)
IsDict(v) == "scalar" \notin DOMAIN v

(* Ordered dicts: d[k] = v keeps the position of an existing key and       *)
(* appends a new one; del d[k] removes the key from the order.             *)
EmptyODict == [keys |-> <<>>, map |-> EmptyDict]

OHas(d, k) == k \in DOMAIN d.map

OPut(d, k, v) ==
    [keys |-> IF OHas(d, k) THEN d.keys ELSE Append(d.keys, k),
     map  |-> DictPut(d.map, k, v)]

ODrop(d, k) ==
    [keys |-> SelectSeq(d.keys, LAMBDA x : x # k),
     map  |-> DictDrop(d.map, k)]

----------------------------------------------------------------------------
(* JSON files *)

AbsentFile == [kind |-> "absent"]
CorruptFile == [kind |-> "corrupt"]

(* A file that exists and whose open() for reading raises PermissionError *)
UnreadableFile == [kind |-> "unreadable"]

(* A decodable document that is not a mapping, such as [] *)
NotAMapping == [scalar |-> "[]"]

(* FilePathManager.get_file_path raises FileNotFoundError when the file is *)
(* at none of the places it looks in                                       *)
get_file_path_raises(file) == file.kind = "absent"

(* Python's None where a dict may be returned instead *)
None == [scalar |-> "None"]

(* json.dump(obj, f) on a file opened with "w" *)
json_dump(obj) == [kind |-> "json", value |-> obj]

(* open(path, "w") + json.dump: a refused open raises before the file is   *)
(* touched, so the old contents stay.                                      *)
write_json(file, obj, fs_ok) == IF fs_ok THEN json_dump(obj) ELSE file

(* File-system answers a writing call can get: a refusal (PermissionError) *)
(* is possible while the failure budget lasts.                             *)
FsAnswers == IF write_failures < MaxWriteFailures THEN BOOLEAN ELSE {TRUE}

Saved(fs_ok) == IF fs_ok THEN "written" ELSE "failed"

----------------------------------------------------------------------------
(* Inputs of the store operations *)

OptionNames == {"usage"}
OptionValues == BOOLEAN

(* Option mappings a caller stores for a collector *)
OptionMaps == UNION {[S -> OptionValues] : S \in SUBSET OptionNames}

(* Per-collector data of a device, as the direct callers of the Device     *)
(* Store supply it                                                         *)
ServiceData == {[model |-> "i5"], [vendor |-> "acme"]}

(* Device records a caller passes to add_computer; the empty dict is the   *)
(* data=None default.                                                      *)
RecordInputs == UNION {[S -> ServiceData] : S \in SUBSET ServiceNames}

----------------------------------------------------------------------------
(* ConfigManager (core/configManager.py) *)

(* load(): a decodable mapping is taken as it is; a missing file, an       *)
(* undecodable file or a document that is not a mapping gives {}.          *)
ConfigManager_load(file) ==
    IF file.kind = "json" /\ IsDict(file.value) THEN file.value ELSE EmptyODict

ConfigManager_save(file, cfg, fs_ok) == write_json(file, cfg, fs_ok)

get_service_config(cfg, service_name) ==
    IF OHas(cfg, service_name) THEN cfg.map[service_name] ELSE EmptyDict

(* Defaults a caller supplies to get_service_config_with_defaults; the     *)
(* empty mapping is also what default_config=None becomes (lines 111-112)  *)
DefaultOptionNames == {"usage", "cores"}
DefaultConfigs == UNION {[S -> OptionValues] : S \in SUBSET DefaultOptionNames}

(* Variant: the defaults are laid over the stored options *)
get_service_config_with_defaults_reversed(cfg, service_name, default_config) ==
    DictMerge(get_service_config(cfg, service_name), default_config)

(* line 116: {**default_config, **service_config}, a new dict *)
get_service_config_with_defaults(cfg, service_name, default_config) ==
    DictMerge(default_config, get_service_config(cfg, service_name))

(* Variant: only the names stored with at least one option are listed *)
list_services_with_options(cfg) ==
    SelectSeq(cfg.keys, LAMBDA n : cfg.map[n] # EmptyDict)

list_services(cfg) == cfg.keys

set_service_config(cfg, service_name, options) == OPut(cfg, service_name, options)

update_service_option(cfg, service_name, option_name, value) ==
    LET c1 == IF OHas(cfg, service_name) THEN cfg
              ELSE OPut(cfg, service_name, EmptyDict)
    IN  OPut(c1, service_name, DictPut(c1.map[service_name], option_name, value))

ConfigManager_remove_service(cfg, service_name) ==
    IF OHas(cfg, service_name) THEN ODrop(cfg, service_name) ELSE cfg

(* ensure_config_file_exists: a missing file is created holding {} *)
ConfigManager_ensure_config_file_exists(file, fs_ok) ==
    IF file.kind = "absent" THEN write_json(file, EmptyODict, fs_ok) ELSE file

(* ConfigManager(): get_file_path (line 25) raises for a missing file      *)
(* before ensure_config_file_exists is reached, and the Singleton keeps no *)
(* instance; otherwise ensure_config_file_exists, which finds the file,    *)
(* then load.                                                              *)
ConfigManagerInit ==
    /\ pc = "new"
    /\ IF get_file_path_raises(config_file)
       THEN /\ ret' = [op |-> "ConfigManager.__init__",
                       value |-> "FileNotFoundError", saved |-> "none"]
            /\ log' = {"warning", "error"}
            /\ UNCHANGED <<cfg_vars, pc>>
       ELSE LET ensured == ConfigManager_ensure_config_file_exists(config_file,
                                                                  TRUE)
            IN  /\ config_file' = ensured
                /\ config' = ConfigManager_load(ensured)
                /\ ret' = [op |-> "ConfigManager.__init__", value |-> "None",
                           saved |-> "none"]
                /\ log' = IF ensured.kind \in {"corrupt", "unreadable"}
                          THEN {"info", "error"} ELSE {"info"}
                /\ pc' = "idle"
    /\ UNCHANGED <<write_failures, dev_vars, reg_vars, run_vars>>

(* The configuration file is removed from outside the program *)
DeleteConfigFile ==
    /\ pc = "idle"
    /\ config_file.kind # "absent"
    /\ config_file' = AbsentFile
    /\ ret' = [op |-> "unlink", value |-> "None", saved |-> "none"]
    /\ log' = {}
    /\ UNCHANGED <<config, write_failures, dev_vars, reg_vars, scan_vars>>

ConfigLoad ==
    /\ pc = "idle"
    /\ config' = ConfigManager_load(config_file)
    /\ ret' = [op |-> "ConfigManager.load", value |-> "None", saved |-> "none"]
    /\ log' = IF config_file.kind \in {"corrupt", "unreadable"}
              THEN {"error"} ELSE {"info"}
    /\ UNCHANGED <<config_file, write_failures, dev_vars, reg_vars, scan_vars>>

SetServiceConfig(service_name, options, fs_ok) ==
    /\ pc = "idle"
    /\ config' = set_service_config(config, service_name, options)
    /\ config_file' = ConfigManager_save(config_file, config', fs_ok)
    /\ write_failures' = write_failures + (IF fs_ok THEN 0 ELSE 1)
    /\ ret' = [op |-> "ConfigManager.set_service_config", value |-> "None",
               saved |-> Saved(fs_ok),
               args |-> [service_name |-> service_name, options |-> options]]
    /\ log' = IF fs_ok THEN {"info"} ELSE {"info", "error"}
    /\ UNCHANGED <<dev_vars, reg_vars, scan_vars>>

UpdateServiceOption(service_name, option_name, value, fs_ok) ==
    /\ pc = "idle"
    /\ config' = update_service_option(config, service_name, option_name, value)
    /\ config_file' = ConfigManager_save(config_file, config', fs_ok)
    /\ write_failures' = write_failures + (IF fs_ok THEN 0 ELSE 1)
    /\ ret' = [op |-> "ConfigManager.update_service_option", value |-> "None",
               saved |-> Saved(fs_ok),
               args |-> [service_name |-> service_name,
                         option_name |-> option_name, value |-> value]]
    /\ log' = IF fs_ok THEN {"info"} ELSE {"info", "error"}
    /\ UNCHANGED <<dev_vars, reg_vars, scan_vars>>

(* A read: nothing of the store is assigned; the caller's default_config   *)
(* is kept in ret.args as the caller still holds it after the call.        *)
GetServiceConfigWithDefaults(service_name, default_config) ==
    /\ pc = "idle"
    /\ ret' = [op |-> "ConfigManager.get_service_config_with_defaults",
               value |-> "dict", saved |-> "none",
               result |-> get_service_config_with_defaults(config, service_name,
                                                           default_config),
               args |-> [service_name |-> service_name,
                         default_config |-> default_config]]
    /\ log' = {"debug"}
    /\ UNCHANGED <<cfg_vars, write_failures, dev_vars, reg_vars, scan_vars>>

(* remove_service has no return statement: it returns None on both paths,  *)
(* and saves only when the key was there.                                  *)
ConfigRemoveService(service_name, fs_ok) ==
    /\ pc = "idle"
    /\ config' = ConfigManager_remove_service(config, service_name)
    /\ IF OHas(config, service_name)
       THEN /\ config_file' = ConfigManager_save(config_file, config', fs_ok)
            /\ write_failures' = write_failures + (IF fs_ok THEN 0 ELSE 1)
            /\ ret' = [op |-> "ConfigManager.remove_service", value |-> "None",
                       saved |-> Saved(fs_ok),
                       args |-> [service_name |-> service_name]]
            /\ log' = IF fs_ok THEN {"info"} ELSE {"info", "error"}
       ELSE /\ fs_ok
            /\ ret' = [op |-> "ConfigManager.remove_service", value |-> "None",
                       saved |-> "none",
                       args |-> [service_name |-> service_name]]
            /\ log' = {"warning"}
            /\ UNCHANGED <<config_file, write_failures>>
    /\ UNCHANGED <<dev_vars, reg_vars, scan_vars>>

----------------------------------------------------------------------------
(* ComputerManager (core/machines.py) *)

(* load(): as ConfigManager.load, every failure gives {} *)
ComputerManager_load(file) ==
    IF file.kind = "json" /\ IsDict(file.value) THEN file.value ELSE EmptyDict

(* Variant: a save that leaves the file as it is *)
ComputerManager_save_skipped(file, comps, fs_ok) == file

ComputerManager_save(file, comps, fs_ok) == write_json(file, comps, fs_ok)

(* Variant: data becomes the record, seen or not *)
add_computer_overwrite(comps, identifier, data) ==
    DictPut(comps, identifier, data)

(* Variant: for a seen identifier the entries of data are merged, field   *)
(* by field, into the entries that are there                               *)
add_computer_deep(comps, identifier, data) ==
    IF identifier \notin DOMAIN comps
    THEN DictPut(comps, identifier, data)
    ELSE DictPut(comps, identifier,
             [k \in DOMAIN comps[identifier] \cup DOMAIN data |->
                 IF k \notin DOMAIN data THEN comps[identifier][k]
                 ELSE IF k \notin DOMAIN comps[identifier] THEN data[k]
                 ELSE DictMerge(comps[identifier][k], data[k])])

(* An unseen identifier gets data as its record; a seen one is updated     *)
(* with dict.update(data).                                                 *)
add_computer(comps, identifier, data) ==
    IF identifier \notin DOMAIN comps
    THEN DictPut(comps, identifier, data)
    ELSE DictPut(comps, identifier, DictMerge(comps[identifier], data))

remove_computer(comps, identifier) ==
    IF identifier \in DOMAIN comps THEN DictDrop(comps, identifier) ELSE comps

(* Variant: the new data is merged into the entry that is there *)
update_service_data_merge(comps, identifier, service_name, service_data) ==
    LET c1 == IF identifier \notin DOMAIN comps
              THEN DictPut(comps, identifier, EmptyDict)
              ELSE comps
        old == IF service_name \in DOMAIN c1[identifier]
               THEN c1[identifier][service_name]
               ELSE EmptyDict
    IN  DictPut(c1, identifier,
                DictPut(c1[identifier], service_name,
                        DictMerge(old, service_data)))

update_service_data(comps, identifier, service_name, service_data) ==
    LET c1 == IF identifier \notin DOMAIN comps
              THEN DictPut(comps, identifier, EmptyDict)
              ELSE comps
    IN  DictPut(c1, identifier, DictPut(c1[identifier], service_name, service_data))

clear_all(comps) == EmptyDict

(* ComputerManager(): get_file_path (line 25) raises for a missing file;   *)
(* otherwise load.                                                         *)
ComputerManagerInit ==
    /\ pc = "new"
    /\ IF get_file_path_raises(machines_file)
       THEN /\ ret' = [op |-> "ComputerManager.__init__",
                       value |-> "FileNotFoundError", saved |-> "none"]
            /\ log' = {"warning", "error"}
            /\ UNCHANGED <<dev_vars, pc>>
       ELSE /\ computers' = ComputerManager_load(machines_file)
            /\ ret' = [op |-> "ComputerManager.__init__", value |-> "None",
                       saved |-> "none"]
            /\ log' = IF machines_file.kind \in {"corrupt", "unreadable"}
                      THEN {"info", "error"} ELSE {"info"}
            /\ pc' = "idle"
            /\ UNCHANGED machines_file
    /\ UNCHANGED <<write_failures, cfg_vars, reg_vars, run_vars>>

(* The device file is removed from outside the program *)
DeleteMachinesFile ==
    /\ pc = "idle"
    /\ machines_file.kind # "absent"
    /\ machines_file' = AbsentFile
    /\ ret' = [op |-> "unlink", value |-> "None", saved |-> "none"]
    /\ log' = {}
    /\ UNCHANGED <<computers, write_failures, cfg_vars, reg_vars, scan_vars>>

ComputerLoad ==
    /\ pc = "idle"
    /\ computers' = ComputerManager_load(machines_file)
    /\ ret' = [op |-> "ComputerManager.load", value |-> "None", saved |-> "none"]
    /\ log' = IF machines_file.kind \in {"corrupt", "unreadable"}
              THEN {"error"}
              ELSE IF machines_file.kind = "json" /\ ~IsDict(machines_file.value)
              THEN {"warning", "info"}
              ELSE {"info"}
    /\ UNCHANGED <<machines_file, write_failures, cfg_vars, reg_vars, scan_vars>>

AddComputer(identifier, data, fs_ok) ==
    /\ pc = "idle"
    /\ computers' = add_computer(computers, identifier, data)
    /\ machines_file' = ComputerManager_save(machines_file, computers', fs_ok)
    /\ write_failures' = write_failures + (IF fs_ok THEN 0 ELSE 1)
    /\ ret' = [op |-> "ComputerManager.add_computer", value |-> "None",
               saved |-> Saved(fs_ok),
               args |-> [identifier |-> identifier, data |-> data]]
    /\ log' = (IF identifier \in DOMAIN computers THEN {"debug"} ELSE {"info"})
              \cup (IF fs_ok THEN {"info"} ELSE {"error"})
    /\ UNCHANGED <<cfg_vars, reg_vars, scan_vars>>

RemoveComputer(identifier, fs_ok) ==
    /\ pc = "idle"
    /\ computers' = remove_computer(computers, identifier)
    /\ IF identifier \in DOMAIN computers
       THEN /\ machines_file' = ComputerManager_save(machines_file, computers', fs_ok)
            /\ write_failures' = write_failures + (IF fs_ok THEN 0 ELSE 1)
            /\ ret' = [op |-> "ComputerManager.remove_computer", value |-> "None",
                       saved |-> Saved(fs_ok),
                       args |-> [identifier |-> identifier]]
            /\ log' = IF fs_ok THEN {"info"} ELSE {"info", "error"}
       ELSE /\ fs_ok
            /\ ret' = [op |-> "ComputerManager.remove_computer", value |-> "None",
                       saved |-> "none",
                       args |-> [identifier |-> identifier]]
            /\ log' = {"warning"}
            /\ UNCHANGED <<machines_file, write_failures>>
    /\ UNCHANGED <<cfg_vars, reg_vars, scan_vars>>

UpdateServiceData(identifier, service_name, service_data, fs_ok) ==
    /\ pc = "idle"
    /\ computers' = update_service_data(computers, identifier, service_name,
                                        service_data)
    /\ machines_file' = ComputerManager_save(machines_file, computers', fs_ok)
    /\ write_failures' = write_failures + (IF fs_ok THEN 0 ELSE 1)
    /\ ret' = [op |-> "ComputerManager.update_service_data", value |-> "None",
               saved |-> Saved(fs_ok),
               args |-> [identifier |-> identifier, service_name |-> service_name,
                         service_data |-> service_data]]
    /\ log' = IF fs_ok THEN {"info"} ELSE {"info", "error"}
    /\ UNCHANGED <<cfg_vars, reg_vars, scan_vars>>

ClearAll(fs_ok) ==
    /\ pc = "idle"
    /\ computers' = clear_all(computers)
    /\ machines_file' = ComputerManager_save(machines_file, computers', fs_ok)
    /\ write_failures' = write_failures + (IF fs_ok THEN 0 ELSE 1)
    /\ ret' = [op |-> "ComputerManager.clear_all", value |-> "None",
               saved |-> Saved(fs_ok)]
    /\ log' = IF fs_ok THEN {"warning", "info"} ELSE {"warning", "error"}
    /\ UNCHANGED <<cfg_vars, reg_vars, scan_vars>>

----------------------------------------------------------------------------
(* ServiceManager (core/services.py) *)

(* str.upper() on the names the model uses *)
Upper(name) == CASE name = "cpu" -> "CPU"
                 [] name = "Cpu" -> "CPU"
                 [] name = "net" -> "NET"
                 [] name = "bios" -> "BIOS"
                 [] OTHER -> name

(* Names a caller may use against the registry *)
RegistryNames == {"CPU", "cpu", "BIOS", "NET"}

(* The built-in catalog, abridged to a collector with options (CPU, two of *)
(* its three options) and the collector without options (BIOS).            *)
DefaultServices ==
    [CPU  |-> [description |-> "cpu",
               options |-> [usage |-> [type |-> "boolean", default |-> FALSE,
                                       description |-> "usage"],
                            cores |-> [type |-> "boolean", default |-> TRUE,
                                       description |-> "cores"]]],
     BIOS |-> [description |-> "bios"]]

service_exists(data, service_name) == Upper(service_name) \in DOMAIN data

(* self.services_data.get(service_name.upper()) *)
get_service(data, service_name) ==
    IF Upper(service_name) \in DOMAIN data THEN data[Upper(service_name)] ELSE None

(* list(self.services_data.keys()), as the set of its elements *)
get_service_names(data) == DOMAIN data

(* "options" of the descriptor, {default per option}; absent (None) when   *)
(* the collector is unknown or has no "options" key.                       *)
HasOptionDefaults(data, service_name) ==
    /\ service_exists(data, service_name)
    /\ "options" \in DOMAIN data[Upper(service_name)]

(* option_data.get('default') is None for an option without "default" *)
get_service_options_with_defaults(data, service_name) ==
    IF ~HasOptionDefaults(data, service_name) THEN None
    ELSE LET options == data[Upper(service_name)].options
         IN  [o \in DOMAIN options |->
                 IF "default" \in DOMAIN options[o] THEN options[o].default
                 ELSE "None"]

ServiceManager_remove_service(data, service_name) ==
    IF Upper(service_name) \in DOMAIN data
    THEN DictDrop(data, Upper(service_name))
    ELSE data

(* save_services re-raises a failed write *)
save_services(file, data, fs_ok) == write_json(file, data, fs_ok)

(* Option specifications a catalog file may hold: complete, or lacking one *)
(* of the three fields                                                     *)
FullOption == [type |-> "boolean", default |-> TRUE, description |-> "usage"]

OptionSpecs ==
    {FullOption,
     [default |-> TRUE, description |-> "usage"],
     [type |-> "boolean", description |-> "usage"],
     [type |-> "boolean", default |-> TRUE]}

(* Descriptors a catalog file may hold *)
Descriptors ==
    {[description |-> "d"], [options |-> [usage |-> FullOption]]} \cup
    {[description |-> "d", options |-> [usage |-> o]] : o \in OptionSpecs}

(* What data/services.json may hold when the program starts: nothing, an   *)
(* undecodable or unreadable text, a document that is not a mapping, or a  *)
(* catalog; the file is edited by hand, so a key need not be uppercase.    *)
RegistryFiles ==
    {AbsentFile, CorruptFile, UnreadableFile, json_dump(NotAMapping),
     json_dump(EmptyDict), json_dump(DefaultServices)} \cup
    {json_dump([k \in {n} |-> d]) : n \in {"CPU", "cpu"}, d \in Descriptors}

(* _ensure_file_exists: a missing file is created with the default catalog *)
ServiceManager_ensure_file_exists(file, fs_ok) ==
    IF file.kind = "absent" THEN write_json(file, DefaultServices, fs_ok) ELSE file

(* _load_services writes only on the JSONDecodeError path                  *)
(* (_recreate_services_file)                                               *)
load_services_writes(file) == file.kind = "corrupt"

(* the file after _load_services; a refused write in                       *)
(* _recreate_services_file is logged and swallowed                         *)
load_services_file(file, fs_ok) ==
    IF load_services_writes(file) THEN write_json(file, DefaultServices, fs_ok)
    ELSE file

(* what _load_services returns: the document if it is a mapping, else the  *)
(* default catalog                                                         *)
load_services(file) ==
    IF file.kind = "json" /\ IsDict(file.value) THEN file.value
    ELSE DefaultServices

(* Variant: "default" is not looked at *)
validate_configuration_lax(data) ==
    \A n \in DOMAIN data :
        /\ "description" \in DOMAIN data[n]
        /\ "options" \in DOMAIN data[n] =>
               \A o \in DOMAIN data[n].options :
                   {"type", "description"} \subseteq DOMAIN data[n].options[o]

(* validate_configuration: False at the first descriptor without           *)
(* "description" or option without "type", "default" or "description"      *)
validate_configuration(data) ==
    ~ \E n \in DOMAIN data :
        \/ "description" \notin DOMAIN data[n]
        \/ /\ "options" \in DOMAIN data[n]
           /\ \E o \in DOMAIN data[n].options :
                  \/ "type" \notin DOMAIN data[n].options[o]
                  \/ "default" \notin DOMAIN data[n].options[o]
                  \/ "description" \notin DOMAIN data[n].options[o]

(* Arguments of add_service *)
Descriptions == {"d"}
AddOptions == {EmptyDict, [usage |-> FullOption]}

(* lines 249-256: "options" is set only for a non-empty options argument *)
new_descriptor(description, options) ==
    IF options = EmptyDict THEN [description |-> description]
    ELSE [description |-> description, options |-> options]

add_service(data, service_name, description, options) ==
    IF service_exists(data, service_name) THEN data
    ELSE DictPut(data, Upper(service_name), new_descriptor(description, options))

RegistryRemoveService(service_name, fs_ok) ==
    /\ pc = "idle"
    /\ services_data' = ServiceManager_remove_service(services_data, service_name)
    /\ IF Upper(service_name) \in DOMAIN services_data
       THEN /\ services_file' = save_services(services_file, services_data', fs_ok)
            /\ write_failures' = write_failures + (IF fs_ok THEN 0 ELSE 1)
            /\ ret' = [op |-> "ServiceManager.remove_service",
                       value |-> IF fs_ok THEN "True" ELSE "raised",
                       saved |-> Saved(fs_ok),
                       args |-> [service_name |-> service_name]]
            /\ log' = IF fs_ok THEN {"info"} ELSE {"info", "error"}
       ELSE /\ fs_ok
            /\ ret' = [op |-> "ServiceManager.remove_service", value |-> "False",
                       saved |-> "none",
                       args |-> [service_name |-> service_name]]
            /\ log' = {}
            /\ UNCHANGED <<services_file, write_failures>>
    /\ UNCHANGED <<cfg_vars, dev_vars, scan_vars>>

(* ServiceManager(): get_file_path (line 20) raises for a missing file     *)
(* before _ensure_file_exists is reached, and the Singleton keeps no       *)
(* instance; otherwise _ensure_file_exists then _load_services.            *)
ServiceManagerInit(fs_ok) ==
    /\ pc = "new"
    /\ IF get_file_path_raises(services_file)
       THEN /\ fs_ok
            /\ ret' = [op |-> "ServiceManager.__init__",
                       value |-> "FileNotFoundError", saved |-> "none"]
            /\ log' = {"warning", "error"}
            /\ UNCHANGED <<reg_vars, write_failures, pc>>
       ELSE LET ensured == ServiceManager_ensure_file_exists(services_file, fs_ok)
            IN  /\ ~load_services_writes(ensured) => fs_ok
                /\ services_data' = load_services(ensured)
                /\ services_file' = load_services_file(ensured, fs_ok)
                /\ write_failures' = write_failures + (IF fs_ok THEN 0 ELSE 1)
                /\ ret' = [op |-> "ServiceManager.__init__", value |-> "None",
                           saved |-> IF load_services_writes(ensured)
                                     THEN Saved(fs_ok) ELSE "none",
                           loaded |-> services_file]
                /\ log' = IF ensured.kind = "json" /\ IsDict(ensured.value)
                          THEN {"info", "debug"}
                          ELSE IF ensured.kind = "json"
                          THEN {"info", "warning"}
                          ELSE {"info", "error"}
                /\ pc' = "idle"
    /\ UNCHANGED <<cfg_vars, dev_vars, run_vars>>

(* reload_services: self.services_data = self._load_services() *)
ReloadServices(fs_ok) ==
    /\ pc = "idle"
    /\ ~load_services_writes(services_file) => fs_ok
    /\ services_data' = load_services(services_file)
    /\ services_file' = load_services_file(services_file, fs_ok)
    /\ write_failures' = write_failures + (IF fs_ok THEN 0 ELSE 1)
    /\ ret' = [op |-> "ServiceManager.reload_services", value |-> "None",
               saved |-> IF load_services_writes(services_file)
                         THEN Saved(fs_ok) ELSE "none",
               loaded |-> services_file]
    /\ log' = IF services_file.kind = "json" /\ IsDict(services_file.value)
              THEN {"info", "debug"}
              ELSE IF services_file.kind \in {"json", "absent"}
              THEN {"info", "warning"}
              ELSE {"info", "error"}
    /\ UNCHANGED <<cfg_vars, dev_vars, scan_vars>>

(* add_service: False for a name service_exists() finds; otherwise the     *)
(* descriptor is stored and save_services() called, whose exception on a   *)
(* refused write leaves add_service before its return statement.           *)
AddService(service_name, description, options, fs_ok) ==
    /\ pc = "idle"
    /\ services_data' = add_service(services_data, service_name, description,
                                    options)
    /\ IF service_exists(services_data, service_name)
       THEN /\ fs_ok
            /\ ret' = [op |-> "ServiceManager.add_service", value |-> "False",
                       saved |-> "none",
                       args |-> [service_name |-> service_name,
                                 description |-> description,
                                 options |-> options]]
            /\ log' = {"warning"}
            /\ UNCHANGED <<services_file, write_failures>>
       ELSE /\ services_file' = save_services(services_file, services_data', fs_ok)
            /\ write_failures' = write_failures + (IF fs_ok THEN 0 ELSE 1)
            /\ ret' = [op |-> "ServiceManager.add_service",
                       value |-> IF fs_ok THEN "True" ELSE "raised",
                       saved |-> Saved(fs_ok),
                       args |-> [service_name |-> service_name,
                                 description |-> description,
                                 options |-> options]]
            /\ log' = IF fs_ok THEN {"info"} ELSE {"info", "error"}
    /\ UNCHANGED <<cfg_vars, dev_vars, scan_vars>>

ValidateConfiguration ==
    /\ pc = "idle"
    /\ ret' = [op |-> "ServiceManager.validate_configuration",
               value |-> IF validate_configuration(services_data)
                         THEN "True" ELSE "False",
               saved |-> "none"]
    /\ log' = IF validate_configuration(services_data) THEN {} ELSE {"error"}
    /\ UNCHANGED <<cfg_vars, dev_vars, reg_vars, write_failures, scan_vars>>

GetServiceOptionsWithDefaults(service_name) ==
    /\ pc = "idle"
    /\ ret' = [op |-> "ServiceManager.get_service_options_with_defaults",
               value |-> "Optional[dict]", saved |-> "none",
               result |-> get_service_options_with_defaults(services_data,
                                                            service_name),
               args |-> [service_name |-> service_name]]
    /\ log' = {}
    /\ UNCHANGED <<cfg_vars, dev_vars, reg_vars, write_failures, scan_vars>>

(* get_service and service_exists on one name *)
GetService(service_name) ==
    /\ pc = "idle"
    /\ ret' = [op |-> "ServiceManager.get_service",
               value |-> IF service_exists(services_data, service_name)
                         THEN "True" ELSE "False",
               saved |-> "none",
               result |-> get_service(services_data, service_name),
               args |-> [service_name |-> service_name]]
    /\ log' = {}
    /\ UNCHANGED <<cfg_vars, dev_vars, reg_vars, write_failures, scan_vars>>

(* The catalog file is removed from outside the program *)
DeleteServicesFile ==
    /\ pc = "idle"
    /\ services_file.kind # "absent"
    /\ services_file' = AbsentFile
    /\ ret' = [op |-> "unlink", value |-> "None", saved |-> "none"]
    /\ log' = {}
    /\ UNCHANGED <<services_data, cfg_vars, dev_vars, write_failures, scan_vars>>

----------------------------------------------------------------------------
(* Scanner (core/scanner.py) *)

(* What a device's payload can be: a dict (with a field named like the     *)
(* metadata the scanner attaches) or a value that is not a dict.           *)
DevicePayloads == {[model |-> "i7", service |-> "x"], [scalar |-> "n/a"]}

(* What collect() can return: a mapping of some device identifiers to      *)
(* payloads, the empty mapping being falsy, or a truthy value that is not  *)
(* a mapping.                                                              *)
ScanResults ==
    UNION {[S -> DevicePayloads] : S \in SUBSET Identifiers} \cup
    {[scalar |-> "n/a"]}

(* How far the loop body gets for one collector:                           *)
(*   missing_file    get_file_path raises FileNotFoundError (line 62)      *)
(*   import_error    exec_module raises (line 71)                          *)
(*   no_class        the module has no attribute NAME (lines 74-77)        *)
(*   ctor_raises     the constructor call raises (line 83)             *)
(*   collect_raises  collect() raises (line 87)                            *)
(*   ok              collect() returns                                     *)
(* spec_from_file_location never returns None for a path ending in ".py",  *)
(* so lines 66-68 are not reachable.                                       *)
Outcomes == {"missing_file", "import_error", "no_class", "ctor_raises",
             "collect_raises", "ok"}

Raising == {"missing_file", "import_error", "ctor_raises", "collect_raises"}

(* outcomes in which line 80-83 is reached: the constructor is called *)
Constructing == {"ctor_raises", "collect_raises", "ok"}

ErrorTexts == {"boom"}

(* time.time() differences *)
Durations == {1}

UploadFlags == {"True", "False", "None"}

(* upload: attempted - _upload_to_github was called; files - the names of   *)
(* the batch given to upload_multiple_files; data - the batch; tried - the *)
(* names upload_json_file was called for; failed - the names it returned   *)
(* False for; result - what _upload_to_github returned                     *)
NoUpload == [attempted |-> FALSE, files |-> {}, data |-> EmptyDict, tried |-> {},
             failed |-> {}, result |-> "none"]

(* lines 80: the options given to the constructor *)
constructor_options(cfg, service_name) == get_service_config(cfg, service_name)

(* lines 143-147 *)
with_meta(computer_data, execution_date, service_name) ==
    DictMerge(computer_data,
              [last_scan |-> execution_date, service |-> service_name])

(* line 140: the keys data.items() goes through; a value that is not a    *)
(* mapping has no items() and the call raises before the first pass        *)
device_keys(data) == IF IsDict(data) THEN DOMAIN data ELSE {}

(* line 141: the devices of a payload that are recorded *)
recorded_identifiers(data) == {i \in device_keys(data) : IsDict(data[i])}

(* _save_service_results: the for loop over data.items() *)
RECURSIVE save_loop(_, _, _, _, _)
save_loop(comps, todo, service_name, data, execution_date) ==
    IF todo = {} THEN comps
    ELSE LET identifier == CHOOSE i \in todo : TRUE
             next == IF IsDict(data[identifier])
                     THEN add_computer(comps, identifier,
                              [c \in {service_name} |->
                                  with_meta(data[identifier], execution_date,
                                            service_name)])
                     ELSE comps
         IN  save_loop(next, todo \ {identifier}, service_name, data,
                       execution_date)

(* Variant: without the isinstance guard of line 141 a payload that is not *)
(* a dict raises inside the loop and ends it; here it comes first          *)
save_service_results_unguarded(comps, service_name, data, execution_date) ==
    IF \A i \in device_keys(data) : IsDict(data[i])
    THEN save_loop(comps, device_keys(data), service_name, data, execution_date)
    ELSE comps

save_service_results(comps, service_name, data, execution_date) ==
    save_loop(comps, device_keys(data), service_name, data, execution_date)

(* Variant: neither the except of line 156 nor the one of                  *)
(* ComputerManager.save is there, and what they catch leaves the call      *)
save_service_results_uncaught(data, fs_ok) == ~IsDict(data) \/ ~fs_ok

(* lines 138 and 156-157, machines.py 58-71: whether an exception leaves  *)
(* _save_service_results.  Its whole body is inside try/except Exception,  *)
(* and save() catches the refused write before that.                       *)
save_service_results_raises(data, fs_ok) == FALSE

(* lines 94-99 and 109-127 *)
success_entry(scan_result, execution_time, execution_date) ==
    [data |-> scan_result, execution_time |-> execution_time,
     execution_date |-> execution_date, success |-> TRUE]

failure_entry(error) == [data |-> EmptyDict, error |-> error, success |-> FALSE]

(* one pass of the loop body on results *)
record_result(res, service_name, outcome, scan_result, execution_time, execution_date, error) ==
    IF outcome = "ok"
    THEN OPut(res, service_name,
              success_entry(scan_result, execution_time, execution_date))
    ELSE IF outcome \in Raising
    THEN OPut(res, service_name, failure_entry(error))
    ELSE res

(* Variant: the results are saved whatever the argument save *)
saves_whatever_flag(save_flag, outcome, scan_result) ==
    outcome = "ok" /\ scan_result # EmptyDict

(* line 104: if save and scan_result *)
saves(save_flag, outcome, scan_result) ==
    save_flag /\ outcome = "ok" /\ scan_result # EmptyDict

(* Variant: an uploader that is there is used whatever the flag *)
wants_upload_any_flag(flag, uploader, res) ==
    /\ flag = "True" \/ uploader
    /\ res.keys # <<>>

(* line 130 *)
wants_upload(flag, uploader, res) ==
    /\ flag = "True" \/ (flag = "None" /\ uploader)
    /\ res.keys # <<>>

ScanFileName(service_name) ==
    CASE service_name = "CPU" -> "CPU_scan.json"
      [] service_name = "NET" -> "NET_scan.json"
      [] OTHER -> "scan.json"

(* Variant: every collector of the result gets an artifact of its own *)
upload_batch_all(res) ==
    {"full_scan_results.json"} \cup {ScanFileName(n) : n \in DOMAIN res.map}

(* lines 167-181: the names of the batch *)
upload_batch(res) ==
    {"full_scan_results.json"} \cup
    {ScanFileName(n) : n \in {m \in DOMAIN res.map : res.map[m].success}}

(* lines 167-181: upload_data, the consolidated artifact and the entry of  *)
(* each collector under its file name                                      *)
upload_data(res, names, now) ==
    [f \in names |->
        IF f = "full_scan_results.json"
        THEN [scan_timestamp |-> now, services_scanned |-> res.keys,
              results |-> res]
        ELSE res.map[CHOOSE n \in DOMAIN res.map : ScanFileName(n) = f]]

(* the order of upload_data.items(): the consolidated artifact, then the   *)
(* collectors in the order of results                                      *)
upload_order(res, names) ==
    <<"full_scan_results.json">> \o
    SelectSeq([i \in 1..Len(res.keys) |-> ScanFileName(res.keys[i])],
              LAMBDA f : f \in names)

(* Variant: the loop stops at the first file that fails *)
upload_multiple_files_until_failure(order, failed) ==
    [tried   |-> {order[i] : i \in {j \in 1..Len(order) :
                                       \A k \in 1..(j - 1) : order[k] \notin failed}},
     success |-> \A i \in 1..Len(order) : order[i] \notin failed]

(* GitHubUploader.upload_multiple_files: every file is given to            *)
(* upload_json_file, which returns False instead of raising; success is    *)
(* True when none returned False.                                          *)
upload_multiple_files(order, failed) ==
    [tried   |-> {order[i] : i \in 1..Len(order)},
     success |-> \A i \in 1..Len(order) : order[i] \notin failed]

(* Variant: the empty list is not short-circuited *)
no_services_never(enabled) == FALSE

(* line 53: if not enabled_services *)
no_services(enabled) == enabled = <<>>

(* Variant: the try/except wraps the loop, a raising collector ends it *)
next_pc_break(position, enabled, outcome) ==
    IF position = Len(enabled) \/ outcome \in Raising
    THEN "export"
    ELSE "collect"

(* Variant: the loop leaves one name early *)
next_pc_early(position, enabled, outcome) ==
    IF position >= Len(enabled) - 1 THEN "export" ELSE "collect"

(* The try/except of lines 60-127 is inside the for loop: whatever the     *)
(* outcome, the loop goes on to the next name, and leaves after the last.  *)
next_pc(position, enabled, outcome) ==
    IF position = Len(enabled) THEN "export" ELSE "collect"

(* lines 43-57 *)
RunBegin(save_arg, upload_arg) ==
    /\ pc = "idle"
    /\ clock + Len(list_services(config)) <= MaxClock
    /\ save' = save_arg
    /\ upload_to_github' = upload_arg
    /\ results' = EmptyODict
    /\ enabled_services' = list_services(config)
    /\ idx' = 1
    /\ trace' = EmptyDict
    /\ store_calls' = 0
    /\ upload' = NoUpload
    /\ IF no_services(list_services(config))
       THEN /\ log' = {"debug", "warning"}
            /\ ret' = [op |-> "Scanner.run", value |-> "results", saved |-> "none"]
            /\ pc' = "idle"
       ELSE /\ log' = {"debug", "info"}
            /\ ret' = [op |-> "Scanner.run", value |-> "running", saved |-> "none"]
            /\ pc' = "collect"
    /\ UNCHANGED <<cfg_vars, dev_vars, reg_vars, write_failures, caller_vars,
                   manager, github_uploader, clock>>

(* lines 59-127: the loop body for enabled_services[idx] *)
RunCollector(outcome, scan_result, execution_time, error, fs_ok) ==
    /\ pc = "collect"
    /\ LET service_name == enabled_services[idx]
           execution_date == clock + 1
           saving == saves(save, outcome, scan_result)
           n_calls == IF saving
                      THEN Cardinality(recorded_identifiers(scan_result))
                      ELSE 0
           new_comps == IF saving
                        THEN save_service_results(computers, service_name,
                                                  scan_result, execution_date)
                        ELSE computers
           \* an exception that leaves line 105 is met by the except of
           \* lines 121-127
           final == IF saving /\ save_service_results_raises(scan_result, fs_ok)
                    THEN "collect_raises"
                    ELSE outcome
       IN  /\ outcome # "ok" =>
                scan_result = EmptyDict /\ execution_time = 1
           /\ outcome \notin Raising => error = "boom"
           /\ n_calls = 0 => fs_ok
           /\ results' = record_result(results, service_name, final, scan_result,
                                       execution_time, execution_date, error)
           /\ clock' = IF outcome = "ok" THEN execution_date ELSE clock
           /\ trace' = DictPut(trace, service_name,
                  [outcome |-> outcome,
                   options |-> IF outcome \in Constructing
                               THEN constructor_options(config, service_name)
                               ELSE EmptyDict,
                   payload |-> scan_result,
                   error |-> IF outcome \in Raising THEN error ELSE "",
                   date |-> IF outcome = "ok" THEN execution_date ELSE 0])
           /\ computers' = new_comps
           /\ machines_file' = IF n_calls > 0
                               THEN ComputerManager_save(machines_file, new_comps,
                                                         fs_ok)
                               ELSE machines_file
           /\ store_calls' = store_calls + n_calls
           /\ write_failures' = write_failures + (IF fs_ok THEN 0 ELSE 1)
           /\ log' = (IF outcome = "ok" THEN {"info"} ELSE {"error"})
                     \cup (IF fs_ok /\ (saving => IsDict(scan_result))
                           THEN {} ELSE {"error"})
    /\ idx' = idx + 1
    /\ pc' = next_pc(idx, enabled_services, outcome)
    /\ UNCHANGED <<cfg_vars, reg_vars, ret, caller_vars, manager,
                   github_uploader, save, upload_to_github, enabled_services,
                   upload>>

(* lines 129-134, with _upload_to_github and upload_multiple_files *)
RunFinish(failed) ==
    /\ pc = "export"
    /\ IF wants_upload(upload_to_github, github_uploader, results)
       THEN IF github_uploader
            THEN LET names == upload_batch(results)
                     sent == upload_multiple_files(upload_order(results, names),
                                                   failed)
                 IN  /\ failed \subseteq names
                     /\ upload' = [attempted |-> TRUE, files |-> names,
                                   data |-> upload_data(results, names, clock),
                                   tried |-> sent.tried,
                                   failed |-> failed \cap sent.tried,
                                   result |-> IF sent.success THEN "True"
                                              ELSE "False"]
                     /\ log' = IF sent.success THEN {"info"}
                               ELSE {"info", "error"}
            ELSE /\ failed = {}
                 /\ upload' = [attempted |-> TRUE, files |-> {},
                               data |-> EmptyDict, tried |-> {}, failed |-> {},
                               result |-> "False"]
                 /\ log' = {"info", "warning"}
       ELSE /\ failed = {}
            /\ upload' = NoUpload
            /\ log' = {"info"}
    /\ ret' = [op |-> "Scanner.run", value |-> "results", saved |-> "none"]
    /\ pc' = "idle"
    /\ UNCHANGED <<cfg_vars, dev_vars, reg_vars, write_failures, caller_vars,
                   manager, github_uploader, clock, save, upload_to_github,
                   enabled_services, idx, results, trace, store_calls>>

----------------------------------------------------------------------------
(* What callers of the stores hold *)

(* The dict a caller got from get_all_computers.  taken: one was returned; *)
(* shared: its keys still bound to the record objects that                 *)
(* ComputerManager.computers is bound to; own: the keys the caller bound   *)
(* itself, with their records.                                             *)
NoDict == [taken |-> FALSE, shared |-> {}, own |-> EmptyDict]

(* Threads that call storage.update_machine_info *)
Threads == {"t1", "t2"}

(* A thread outside the call: no locals *)
ThreadIdle == [pc |-> "idle", new_info |-> EmptyDict, data |-> EmptyDict]

(* The classes decorated with @Singleton that main.py constructs *)
Classes == {"AppLogger", "ConfigManager", "ComputerManager", "Scanner"}

(* utils/singleton.py 8-11: Singleton.__init__ leaves instance = None *)
Singleton_init == [instance |-> "None", constructions |-> 0]

CallersIdle ==
    /\ returned = NoDict
    /\ threads = [t \in Threads |-> ThreadIdle]
    /\ singletons = [c \in Classes |-> Singleton_init]

----------------------------------------------------------------------------
(* Specifications *)

UploadFiles == {"full_scan_results.json", "CPU_scan.json", "NET_scan.json"}

(* The stores after construction on files that hold their contents *)
StoresInit ==
    /\ config_file = json_dump(config)
    /\ computers = EmptyDict
    /\ machines_file = json_dump(computers)
    /\ services_data = DefaultServices
    /\ services_file = json_dump(services_data)
    /\ write_failures = 0
    /\ ret = [op |-> "init", value |-> "None", saved |-> "none"]
    /\ log = {}

ScanIdle ==
    /\ clock = 0
    /\ pc = "idle"
    /\ save = TRUE
    /\ upload_to_github = "None"
    /\ enabled_services = <<>>
    /\ idx = 1
    /\ results = EmptyODict
    /\ trace = EmptyDict
    /\ store_calls = 0
    /\ upload = NoUpload
    /\ CallersIdle

(* Config Stores a scan starts from: every order of every subset of the    *)
(* names, each with an option mapping.                                     *)
Configs ==
    {EmptyODict} \cup
    {OPut(EmptyODict, n, o) : n \in ServiceNames, o \in OptionMaps} \cup
    {OPut(OPut(EmptyODict, n, o), m, EmptyDict) :
        n \in ServiceNames, m \in ServiceNames, o \in OptionMaps}

(* Scan runs over a Config Store fixed at the start *)
Init ==
    /\ manager = "Scanner"
    /\ config \in Configs
    /\ github_uploader \in BOOLEAN
    /\ StoresInit
    /\ ScanIdle

Next ==
    \/ \E s \in BOOLEAN, u \in UploadFlags : RunBegin(s, u)
    \/ \E o \in Outcomes, r \in ScanResults, t \in Durations, e \in ErrorTexts,
          fs_ok \in FsAnswers : RunCollector(o, r, t, e, fs_ok)
    \/ \E f \in SUBSET UploadFiles : RunFinish(f)

Spec == Init /\ [][Next]_vars

(* The stores under their direct callers, no scan running.  The managers   *)
(* are separate objects over separate files and no method of one reads or  *)
(* writes another, so a behaviour drives one of them.                      *)
Managers == {"ConfigManager", "ComputerManager"}

StoreInit ==
    /\ manager \in Managers
    /\ config = EmptyODict
    /\ github_uploader = FALSE
    /\ StoresInit
    /\ ScanIdle

ConfigNext ==
    \/ ConfigLoad
    \/ \E n \in ServiceNames, o \in OptionMaps, fs_ok \in FsAnswers :
          SetServiceConfig(n, o, fs_ok)
    \/ \E n \in ServiceNames, o \in OptionNames, v \in OptionValues,
          fs_ok \in FsAnswers : UpdateServiceOption(n, o, v, fs_ok)
    \/ \E n \in ServiceNames, fs_ok \in FsAnswers : ConfigRemoveService(n, fs_ok)
    \/ \E n \in ServiceNames, d \in DefaultConfigs :
          GetServiceConfigWithDefaults(n, d)

ComputerNext ==
    \/ ComputerLoad
    \/ \E i \in Identifiers, d \in RecordInputs, fs_ok \in FsAnswers :
          AddComputer(i, d, fs_ok)
    \/ \E i \in Identifiers, fs_ok \in FsAnswers : RemoveComputer(i, fs_ok)
    \/ \E i \in Identifiers, n \in ServiceNames, d \in ServiceData,
          fs_ok \in FsAnswers : UpdateServiceData(i, n, d, fs_ok)
    \/ \E fs_ok \in FsAnswers : ClearAll(fs_ok)

StoreNext ==
    \/ manager = "ConfigManager" /\ ConfigNext
    \/ manager = "ComputerManager" /\ ComputerNext

StoreSpec == StoreInit /\ [][StoreNext]_vars

(* The Config Store and the Device Store from their construction on        *)
(* whatever their files hold                                               *)
ConfigFiles ==
    {AbsentFile, CorruptFile, UnreadableFile, json_dump(NotAMapping),
     json_dump(EmptyODict),
     json_dump(OPut(EmptyODict, "CPU", [usage |-> TRUE]))}

MachinesFiles ==
    {AbsentFile, CorruptFile, UnreadableFile, json_dump(NotAMapping),
     json_dump(EmptyDict),
     json_dump([i \in {"m1"} |-> [CPU |-> [model |-> "i5"]]])}

LoadInit ==
    /\ manager \in Managers
    /\ pc = "new"
    /\ config = EmptyODict
    /\ computers = EmptyDict
    /\ IF manager = "ConfigManager"
       THEN config_file \in ConfigFiles /\ machines_file = json_dump(EmptyDict)
       ELSE config_file = json_dump(EmptyODict) /\ machines_file \in MachinesFiles
    /\ services_data = DefaultServices
    /\ services_file = json_dump(services_data)
    /\ github_uploader = FALSE
    /\ write_failures = 0
    /\ ret = [op |-> "init", value |-> "None", saved |-> "none"]
    /\ log = {}
    /\ clock = 0
    /\ save = TRUE
    /\ upload_to_github = "None"
    /\ enabled_services = <<>>
    /\ idx = 1
    /\ results = EmptyODict
    /\ trace = EmptyDict
    /\ store_calls = 0
    /\ upload = NoUpload
    /\ CallersIdle

LoadNext ==
    \/ manager = "ConfigManager" /\ ConfigManagerInit
    \/ manager = "ConfigManager" /\ ConfigNext
    \/ manager = "ConfigManager" /\ DeleteConfigFile
    \/ manager = "ComputerManager" /\ ComputerManagerInit
    \/ manager = "ComputerManager" /\ ComputerNext
    \/ manager = "ComputerManager" /\ DeleteMachinesFile

LoadSpec == LoadInit /\ [][LoadNext]_vars

(* The Service Registry from its construction on whatever the catalog file *)
(* holds, under its direct callers                                         *)
RegistryInit ==
    /\ manager = "ServiceManager"
    /\ pc = "new"
    /\ services_file \in RegistryFiles
    /\ services_data = EmptyDict
    /\ config = EmptyODict
    /\ config_file = json_dump(config)
    /\ computers = EmptyDict
    /\ machines_file = json_dump(computers)
    /\ github_uploader = FALSE
    /\ write_failures = 0
    /\ ret = [op |-> "init", value |-> "None", saved |-> "none"]
    /\ log = {}
    /\ clock = 0
    /\ save = TRUE
    /\ upload_to_github = "None"
    /\ enabled_services = <<>>
    /\ idx = 1
    /\ results = EmptyODict
    /\ trace = EmptyDict
    /\ store_calls = 0
    /\ upload = NoUpload
    /\ CallersIdle

RegistryNext ==
    \/ \E fs_ok \in FsAnswers : ServiceManagerInit(fs_ok)
    \/ \E fs_ok \in FsAnswers : ReloadServices(fs_ok)
    \/ \E n \in RegistryNames, d \in Descriptions, o \in AddOptions,
          fs_ok \in FsAnswers : AddService(n, d, o, fs_ok)
    \/ \E n \in RegistryNames, fs_ok \in FsAnswers : RegistryRemoveService(n, fs_ok)
    \/ ValidateConfiguration
    \/ \E n \in RegistryNames : GetServiceOptionsWithDefaults(n)
    \/ \E n \in RegistryNames : GetService(n)
    \/ DeleteServicesFile

RegistrySpec == RegistryInit /\ [][RegistryNext]_vars

----------------------------------------------------------------------------
(* Properties of a scan run (Spec) *)

(* Scanner.run has returned its results *)
RunDone == pc = "idle" /\ ret.op = "Scanner.run" /\ ret.value = "results"

Enabled == {enabled_services[i] : i \in 1..Len(enabled_services)}

(* c ran to the end of collect() in this run *)
Succeeded(c) == c \in DOMAIN trace /\ trace[c].outcome = "ok"

(* the Device Store holds d's payload of c's execution in this run *)
Recorded(d, c) ==
    /\ d \in DOMAIN computers
    /\ c \in DOMAIN computers[d]
    /\ computers[d][c] = with_meta(trace[c].payload[d], trace[c].date, c)

(* C1: a collector whose loading, construction or collect() raises does    *)
(* not stop the run: when the run has returned, every enabled collector    *)
(* has been attempted, each raising one has a failed entry with the        *)
(* captured error, each succeeding one has a successful entry with its     *)
(* payload, and with saving on its device payloads are in the Device       *)
(* Store, wherever the raising collector sits in the list.                 *)
C1_FailureIsolated ==
    RunDone =>
        /\ Enabled \subseteq DOMAIN trace
        /\ \A c \in DOMAIN trace :
              /\ trace[c].outcome \in Raising =>
                    /\ OHas(results, c)
                    /\ results.map[c].success = FALSE
                    /\ results.map[c].error = trace[c].error
              /\ Succeeded(c) =>
                    /\ OHas(results, c)
                    /\ results.map[c].success = TRUE
                    /\ results.map[c].data = trace[c].payload
              /\ (Succeeded(c) /\ save) =>
                    \A d \in recorded_identifiers(trace[c].payload) : Recorded(d, c)

(* a run over two collectors: the first raised in collect(), the second    *)
(* succeeded and its payload for m1 is in the Device Store                 *)
C1_Witness ==
    /\ RunDone
    /\ Len(enabled_services) = 2
    /\ trace[enabled_services[1]].outcome = "collect_raises"
    /\ Succeeded(enabled_services[2])
    /\ save
    /\ "m1" \in recorded_identifiers(trace[enabled_services[2]].payload)
    /\ Recorded("m1", enabled_services[2])

(* C2: the mapping a run over a non-empty enabled list returns has exactly *)
(* one entry per enabled collector, each with a success flag, whatever     *)
(* happened to the collector.                                              *)
C2_EntryPerEnabledCollector ==
    (RunDone /\ enabled_services # <<>>) =>
        /\ DOMAIN results.map = Enabled
        /\ \A c \in DOMAIN results.map : "success" \in DOMAIN results.map[c]

(* C3 as claimed: after a run with saving on, every device key of every    *)
(* successful non-empty payload has its entry in the Device Store, with    *)
(* last_scan the execution's timestamp and service the collector's name.   *)
C3_EveryDeviceKeyRecorded ==
    (RunDone /\ save) =>
        \A c \in DOMAIN trace : Succeeded(c) =>
            \A d \in device_keys(trace[c].payload) :
                /\ d \in DOMAIN computers
                /\ c \in DOMAIN computers[d]
                /\ computers[d][c].last_scan = trace[c].date
                /\ computers[d][c].service = c

(* C3 as amended: every device key whose payload is a mapping has its      *)
(* entry, the payload extended with last_scan and service; a device key    *)
(* whose payload is not a mapping has no entry of this execution.          *)
C3_MappingPayloadsRecorded ==
    (RunDone /\ save) =>
        \A c \in DOMAIN trace : Succeeded(c) =>
            \A d \in device_keys(trace[c].payload) :
                IF IsDict(trace[c].payload[d])
                THEN Recorded(d, c)
                ELSE \/ d \notin DOMAIN computers
                     \/ c \notin DOMAIN computers[d]
                     \/ computers[d][c].last_scan # trace[c].date

(* a successful payload with a mapping for m1 and another value for m2 *)
C3_Witness ==
    /\ RunDone
    /\ save
    /\ \E c \in DOMAIN trace :
          /\ Succeeded(c)
          /\ DOMAIN trace[c].payload = {"m1", "m2"}
          /\ IsDict(trace[c].payload["m1"])
          /\ ~IsDict(trace[c].payload["m2"])
          /\ Recorded("m1", c)
          /\ computers["m1"][c].service = c
          /\ computers["m1"][c].model = "i7"

(* The options the claim expects the constructor to get *)
MergedOptions(c) ==
    IF HasOptionDefaults(services_data, c)
    THEN DictMerge(get_service_options_with_defaults(services_data, c),
                   get_service_config(config, c))
    ELSE get_service_config(config, c)

(* C4: the constructor of every enabled collector gets the registry's      *)
(* option defaults merged with the Config Store's overrides.               *)
C4_ConstructorGetsMergedOptions ==
    \A c \in DOMAIN trace :
        trace[c].outcome \in Constructing => trace[c].options = MergedOptions(c)

(* C7: a run that finds no enabled collector returns at once: an empty     *)
(* result, a warning, no collector loaded, the Device Store and its file   *)
(* untouched, nothing handed to the uploader, whatever the flags.          *)
C7_EmptyRunStep ==
    (pc = "idle" /\ list_services(config) = <<>>) =>
        /\ pc' = "idle"
        /\ ret' = [op |-> "Scanner.run", value |-> "results", saved |-> "none"]
        /\ results' = EmptyODict
        /\ "warning" \in log'
        /\ trace' = EmptyDict
        /\ store_calls' = 0
        /\ upload' = NoUpload
        /\ UNCHANGED dev_vars

C7_EmptyRunShortCircuits == [][C7_EmptyRunStep]_vars

(* an empty run asked to save and to upload, with an uploader at hand *)
C7_Witness ==
    /\ RunDone
    /\ list_services(config) = <<>>
    /\ save
    /\ upload_to_github = "True"
    /\ github_uploader
    /\ "warning" \in log
    /\ results = EmptyODict

(* C8: the collectors a run attempts are the keys of the Config Store, a   *)
(* key with an empty option mapping included, whether the registry knows   *)
(* the name or not.                                                        *)
C8_AttemptedIffConfigured ==
    /\ DOMAIN trace \subseteq DOMAIN config.map
    /\ RunDone => DOMAIN trace = DOMAIN config.map

(* NET, unknown to the registry and stored with no option, was attempted;  *)
(* CPU, known to the registry and not stored, was not                      *)
C8_Witness ==
    /\ RunDone
    /\ DOMAIN config.map = {"NET"}
    /\ config.map["NET"] = EmptyDict
    /\ ~service_exists(services_data, "NET")
    /\ service_exists(services_data, "CPU")
    /\ DOMAIN trace = {"NET"}

----------------------------------------------------------------------------
(* Properties of the stores (StoreSpec) *)

One(k, v) == [x \in {k} |-> v]

(* an add_computer step: the unseen identifier gets data as its record,    *)
(* the seen one keeps every entry data does not name and takes data's      *)
C5_AddStep ==
    ret'.op = "ComputerManager.add_computer" =>
        LET i == ret'.args.identifier
            data == ret'.args.data
        IN  /\ i \in DOMAIN computers'
            /\ i \notin DOMAIN computers => computers'[i] = data
            /\ i \in DOMAIN computers =>
                  /\ DOMAIN computers'[i] = DOMAIN computers[i] \cup DOMAIN data
                  /\ \A k \in DOMAIN computers[i] :
                        computers'[i][k] =
                            IF k \in DOMAIN data THEN data[k] ELSE computers[i][k]
                  /\ \A k \in DOMAIN data : computers'[i][k] = data[k]

(* from any store, adding {A: a} and {B: b} to one identifier gives the    *)
(* same record in either order, holding a under A and b under B            *)
C5_OrderIndependent ==
    \A i \in Identifiers, A \in ServiceNames, B \in ServiceNames,
       a \in ServiceData, b \in ServiceData :
        A # B =>
            LET ab == add_computer(add_computer(computers, i, One(A, a)), i,
                                   One(B, b))
                ba == add_computer(add_computer(computers, i, One(B, b)), i,
                                   One(A, a))
            IN  /\ ab = ba
                /\ ab[i][A] = a
                /\ ab[i][B] = b
                /\ i \in DOMAIN computers =>
                      \A k \in DOMAIN computers[i] \ {A, B} :
                          ab[i][k] = computers[i][k]

(* C5: add_computer inserts data for an unseen identifier and merges it    *)
(* per top-level key for a seen one; two adds of distinct collectors       *)
(* commute and keep both; no add drops an entry the record already had.    *)
C5_AddComputerMerges == [][C5_AddStep]_vars /\ []C5_OrderIndependent

(* {NET: ...} was added to a record that held CPU: both are there *)
C5_Witness ==
    /\ ret.op = "ComputerManager.add_computer"
    /\ DOMAIN ret.args.data = {"NET"}
    /\ ret.args.identifier \in DOMAIN computers
    /\ DOMAIN computers[ret.args.identifier] = {"CPU", "NET"}
    /\ computers[ret.args.identifier]["CPU"] # ret.args.data["NET"]

C6_UpdateStep ==
    ret'.op = "ComputerManager.update_service_data" =>
        LET i == ret'.args.identifier
            c == ret'.args.service_name
            before == IF i \in DOMAIN computers THEN computers[i] ELSE EmptyDict
        IN  /\ DOMAIN computers' = DOMAIN computers \cup {i}
            /\ DOMAIN computers'[i] = DOMAIN before \cup {c}
            /\ computers'[i][c] = ret'.args.service_data
            /\ \A k \in DOMAIN before \ {c} : computers'[i][k] = before[k]
            /\ \A j \in DOMAIN computers \ {i} : computers'[j] = computers[j]

(* C6: update_service_data creates the record if need be, sets [id][c] to  *)
(* exactly the data given and changes no other entry and no other record.  *)
C6_UpdateReplacesOneEntry == [][C6_UpdateStep]_vars

(* m1's CPU entry was replaced by a different payload (the file, whose     *)
(* write was refused, still shows the earlier one) next to m1's NET entry  *)
(* and to m2's record                                                      *)
C6_Witness ==
    /\ ret.op = "ComputerManager.update_service_data"
    /\ ret.args.identifier = "m1"
    /\ ret.args.service_name = "CPU"
    /\ DOMAIN computers = {"m1", "m2"}
    /\ DOMAIN computers["m1"] = {"CPU", "NET"}
    /\ computers["m1"]["CPU"] = [vendor |-> "acme"]
    /\ ret.saved = "failed"
    /\ "m1" \in DOMAIN machines_file.value
    /\ "CPU" \in DOMAIN machines_file.value["m1"]
    /\ machines_file.value["m1"]["CPU"] = [model |-> "i5"]

ConfigMutators == {"ConfigManager.set_service_config",
                   "ConfigManager.update_service_option",
                   "ConfigManager.remove_service"}

ComputerMutators == {"ComputerManager.add_computer",
                     "ComputerManager.update_service_data",
                     "ComputerManager.remove_computer",
                     "ComputerManager.clear_all"}

C10_RemoveMissingStep ==
    /\ (ret'.op = "ConfigManager.remove_service"
            /\ ~OHas(config, ret'.args.service_name)) =>
          /\ UNCHANGED cfg_vars
          /\ ret'.value = "False"
    /\ (ret'.op = "ComputerManager.remove_computer"
            /\ ret'.args.identifier \notin DOMAIN computers) =>
          /\ UNCHANGED dev_vars
          /\ ret'.value = "False"
    /\ (ret'.op = "ConfigManager.remove_service"
            /\ OHas(config, ret'.args.service_name)) => ret'.value # "False"
    /\ (ret'.op = "ComputerManager.remove_computer"
            /\ ret'.args.identifier \in DOMAIN computers) => ret'.value # "False"

(* C10: removing a key that is not in the store raises nothing, changes    *)
(* neither the store nor its file and returns false, which removing a key  *)
(* that is there does not.                                                 *)
C10_RemoveMissingReportsFalse == [][C10_RemoveMissingStep]_vars

----------------------------------------------------------------------------
(* C11: get_service_config_with_defaults(name, defaults) returns the       *)
(* stored override for every key the stored options have, whether or not   *)
(* the defaults have it too, and the default for every key only the        *)
(* defaults have; it has no other key; and the call changes neither the    *)
(* stored configuration (in memory or on file) nor the defaults supplied.  *)
C11_MergeStep ==
    ret'.op = "ConfigManager.get_service_config_with_defaults" =>
        LET name == ret'.args.service_name
            defaults == ret'.args.default_config
            stored == IF name \in DOMAIN config.map THEN config.map[name]
                      ELSE EmptyDict
            merged == ret'.result
        IN  /\ DOMAIN merged = (DOMAIN stored) \cup (DOMAIN defaults)
            /\ \A k \in DOMAIN stored : merged[k] = stored[k]
            /\ \A k \in (DOMAIN defaults) \ (DOMAIN stored) :
                   merged[k] = defaults[k]
            /\ config' = config
            /\ config_file' = config_file

C11_DefaultsMergeOverridesWin == [][C11_MergeStep]_vars

(* A merge where one key is in both with different values, one only in the *)
(* defaults *)
C11_Witness ==
    /\ ret.op = "ConfigManager.get_service_config_with_defaults"
    /\ ret.args.service_name \in DOMAIN config.map
    /\ LET stored == config.map[ret.args.service_name]
           defaults == ret.args.default_config
       IN  /\ "usage" \in DOMAIN stored /\ "usage" \in DOMAIN defaults
           /\ stored["usage"] # defaults["usage"]
           /\ "cores" \in DOMAIN defaults
           /\ ret.result = [usage |-> stored["usage"], cores |-> defaults["cores"]]

----------------------------------------------------------------------------
(* Properties of the export step (Spec) *)

(* upload_multiple_files was called with a batch *)
BatchUploaded(u) == u.files # {}

(* the loop body has run for the collector, and what it found or the error *)
(* it met is in results                                                    *)
ExecutedAndRecorded(c) ==
    /\ c \in DOMAIN trace
    /\ trace[c].outcome \in Raising \cup {"ok"} => c \in DOMAIN results.map
    /\ saves(save, trace[c].outcome, trace[c].payload) =>
           \A d \in recorded_identifiers(trace[c].payload) :
               d \in DOMAIN computers /\ c \in DOMAIN computers[d]

(* C13: run calls the uploader's batch upload exactly when the result is   *)
(* not empty, an uploader is available and the flag is True or None; with  *)
(* the flag False nothing of the export is attempted; and a batch is only  *)
(* uploaded once the loop has run for every enabled collector.             *)
C13_ExportStep ==
    pc = "export" =>
        /\ BatchUploaded(upload') <=>
               /\ results.keys # <<>>
               /\ github_uploader
               /\ upload_to_github \in {"True", "None"}
        /\ upload_to_github = "False" => upload' = NoUpload
        /\ \A c \in Enabled : ExecutedAndRecorded(c)

C13_NoEarlyUpload ==
    /\ pc = "collect" => upload = NoUpload
    /\ BatchUploaded(upload) =>
           pc = "idle" /\ \A c \in Enabled : ExecutedAndRecorded(c)
    /\ upload_to_github = "False" => ~upload.attempted

C13_UploadIffWantedAndAfterLoop == [][C13_ExportStep]_vars /\ []C13_NoEarlyUpload

(* A run with the flag left unset, two collectors, has uploaded *)
C13_Witness ==
    /\ RunDone
    /\ upload_to_github = "None"
    /\ github_uploader
    /\ BatchUploaded(upload)
    /\ Len(enabled_services) = 2

(* Collectors of the result whose success flag is true *)
Successful(res) == {n \in DOMAIN res.map : res.map[n].success}

(* C14: the batch has the consolidated artifact, which lists every         *)
(* collector name of the result and holds the full result, and one         *)
(* artifact per collector whose success flag is true, holding its entry;   *)
(* a failed collector has none; the batch has 1 + (number of successful    *)
(* collectors) files.                                                      *)
C14_BatchIsConsolidatedPlusSuccessful ==
    (RunDone /\ BatchUploaded(upload)) =>
        /\ DOMAIN upload.data = upload.files
        /\ "full_scan_results.json" \in upload.files
        /\ upload.data["full_scan_results.json"].services_scanned = results.keys
        /\ upload.data["full_scan_results.json"].results = results
        /\ \A n \in Successful(results) :
               /\ ScanFileName(n) \in upload.files
               /\ upload.data[ScanFileName(n)] = results.map[n]
        /\ \A n \in (DOMAIN results.map) \ Successful(results) :
               ScanFileName(n) \notin upload.files
        /\ Cardinality(upload.files) = 1 + Cardinality(Successful(results))

(* A batch of a run with one successful and one failed collector *)
C14_Witness ==
    /\ RunDone
    /\ BatchUploaded(upload)
    /\ Cardinality(DOMAIN results.map) = 2
    /\ Cardinality(Successful(results)) = 1
    /\ Cardinality(upload.files) = 2

(* C15: the export step returns to run, which returns its results; what    *)
(* the step yields is True only if no file of the batch failed; every file *)
(* of the batch is given to the uploader, also after one has failed; and   *)
(* the step leaves the Device Store, in memory and on file, as the loop    *)
(* left it, whatever the uploads did.                                      *)
C15_ExportStep ==
    pc = "export" =>
        /\ pc' = "idle" /\ ret'.op = "Scanner.run" /\ ret'.value = "results"
        /\ upload'.result \in {"True", "False", "none"}
        /\ upload'.attempted <=> upload'.result # "none"
        /\ upload'.result = "True" =>
               BatchUploaded(upload') /\ upload'.failed = {}
        /\ BatchUploaded(upload') => upload'.tried = upload'.files
        /\ computers' = computers
        /\ machines_file' = machines_file

C15_UploadFailureContained == [][C15_ExportStep]_vars

(* The first file of a batch of two failed, the second was uploaded, and   *)
(* the run had written to the Device Store                                 *)
C15_Witness ==
    /\ RunDone
    /\ upload.files = {"full_scan_results.json", "CPU_scan.json"}
    /\ upload.failed = {"full_scan_results.json"}
    /\ upload.tried = upload.files
    /\ upload.result = "False"
    /\ computers # EmptyDict
    /\ machines_file = json_dump(computers)

----------------------------------------------------------------------------
(* Properties of the Service Registry (RegistrySpec) *)

(* A descriptor with a description whose options, if it has any, each have *)
(* type, default and description                                           *)
CompleteDescriptor(d) ==
    /\ "description" \in DOMAIN d
    /\ "options" \in DOMAIN d =>
           \A o \in DOMAIN d.options :
               {"type", "default", "description"} \subseteq DOMAIN d.options[o]

(* C12: validate_configuration returns True exactly when every descriptor  *)
(* of the catalog has a description and every option of every descriptor   *)
(* has type, default and description, and the call leaves the catalog, in  *)
(* memory and on file, as it was.                                          *)
C12_ValidateStep ==
    ret'.op = "ServiceManager.validate_configuration" =>
        /\ ret'.value = "True" <=>
               \A n \in DOMAIN services_data : CompleteDescriptor(services_data[n])
        /\ ret'.value \in {"True", "False"}
        /\ services_data' = services_data
        /\ services_file' = services_file

C12_ValidateIffComplete == [][C12_ValidateStep]_vars

(* validate_configuration has answered False for a catalog whose only      *)
(* defect is an option without "default"                                   *)
C12_Witness ==
    /\ ret.op = "ServiceManager.validate_configuration"
    /\ ret.value = "False"
    /\ \A n \in DOMAIN services_data :
           /\ "description" \in DOMAIN services_data[n]
           /\ "options" \in DOMAIN services_data[n] =>
                  \A o \in DOMAIN services_data[n].options :
                      {"type", "description"} \subseteq
                          DOMAIN services_data[n].options[o]

(* The name is a key of the catalog in some letter case *)
InCatalogAnyCase(data, name) == \E k \in DOMAIN data : Upper(k) = Upper(name)

(* The catalog d2 is d1 with the descriptor of the call stored under key *)
StoredUnder(d1, d2, key, args) ==
    /\ DOMAIN d2 = (DOMAIN d1) \cup {key}
    /\ \A k \in (DOMAIN d1) \ {key} : d2[k] = d1[k]
    /\ d2[key].description = args.description
    /\ IF args.options = EmptyDict
       THEN "options" \notin DOMAIN d2[key]
       ELSE d2[key].options = args.options

(* C16: add_service with a name that the catalog has in any letter case    *)
(* returns False and leaves the catalog and its file as they were; with a  *)
(* new name it stores the descriptor under the uppercase name, writes the  *)
(* catalog to the file and returns True.                                   *)
C16_AddStepAsStated ==
    ret'.op = "ServiceManager.add_service" =>
        LET args == ret'.args
        IN  IF InCatalogAnyCase(services_data, args.service_name)
            THEN /\ ret'.value = "False"
                 /\ services_data' = services_data
                 /\ services_file' = services_file
            ELSE /\ ret'.value = "True"
                 /\ StoredUnder(services_data, services_data',
                                Upper(args.service_name), args)
                 /\ services_file' = json_dump(services_data')

C16_AddRejectsDuplicateElsePersists == [][C16_AddStepAsStated]_vars

(* The letter-case variants of the names callers use *)
LetterCases == {{"CPU", "cpu", "Cpu"}, {"BIOS", "bios"}, {"NET", "net"}}

(* C17: in every catalog reachable by load, add and remove, get_service,   *)
(* service_exists and remove_service answer alike for all letter-case      *)
(* variants of a name, every key of the catalog is uppercase, and every    *)
(* name get_service_names returns can be fetched with get_service.         *)
C17_LookupCaseInsensitive ==
    pc = "idle" =>
        /\ \A variants \in LetterCases : \A v1 \in variants, v2 \in variants :
               /\ get_service(services_data, v1) = get_service(services_data, v2)
               /\ service_exists(services_data, v1)
                      <=> service_exists(services_data, v2)
               /\ ServiceManager_remove_service(services_data, v1)
                      = ServiceManager_remove_service(services_data, v2)
        /\ \A k \in get_service_names(services_data) :
               /\ k = Upper(k)
               /\ get_service(services_data, k) # None
               /\ get_service(services_data, k) = services_data[k]

(* C18: get_service_options_with_defaults(name) returns None exactly when  *)
(* the registry does not know the collector; for a known collector it      *)
(* returns the mapping of each option name to the option's default, which  *)
(* is the empty mapping for a collector declared without options.          *)
C18_DefaultsStep ==
    ret'.op = "ServiceManager.get_service_options_with_defaults" =>
        LET name == ret'.args.service_name
            known == service_exists(services_data, name)
            descriptor == services_data[Upper(name)]
            options == IF "options" \in DOMAIN descriptor
                       THEN descriptor.options ELSE EmptyDict
        IN  /\ ret'.result = None <=> ~known
            /\ known =>
                   /\ DOMAIN ret'.result = DOMAIN options
                   /\ \A o \in DOMAIN options :
                          "default" \in DOMAIN options[o] =>
                              ret'.result[o] = options[o].default

C18_DefaultsOrAbsence == [][C18_DefaultsStep]_vars

(* The calls that load the catalog: the constructor and reload_services *)
RegistryLoads == {"ServiceManager.__init__", "ServiceManager.reload_services"}

(* The catalog file does not give a catalog: it is absent, undecodable or  *)
(* holds a document that is not a mapping                                  *)
NoCatalogIn(file) ==
    \/ file.kind \in {"absent", "corrupt"}
    \/ file.kind = "json" /\ ~IsDict(file.value)

(* C19: loading the registry never raises, and whenever the catalog file   *)
(* is absent, undecodable or does not hold a mapping the catalog in memory *)
(* becomes the built-in default catalog and the default catalog is written *)
(* to the file.                                                            *)
C19_LoadStep ==
    ret'.op \in RegistryLoads =>
        /\ ret'.value = "None"
        /\ NoCatalogIn(services_file) =>
               /\ services_data' = DefaultServices
               /\ services_file' = json_dump(DefaultServices)

C19_LoadFallsBackAndPersists == [][C19_LoadStep]_vars

----------------------------------------------------------------------------
(* Properties of loading the stores (LoadSpec) *)

(* The file gives no mapping: it is missing, undecodable, unreadable or    *)
(* holds a document that is not a mapping                                  *)
NoMappingIn(file) ==
    \/ file.kind \in {"absent", "corrupt", "unreadable"}
    \/ file.kind = "json" /\ ~IsDict(file.value)

(* C20: ConfigManager.load and ComputerManager.load return normally, and   *)
(* leave the empty mapping in memory whenever the backing file is missing, *)
(* undecodable, unreadable or not a mapping; and the initialisation of the *)
(* Config Store completes with a backing file in place.                    *)
C20_LoadStep ==
    /\ ret'.op = "ConfigManager.load" =>
           /\ ret'.value = "None"
           /\ NoMappingIn(config_file) => config' = EmptyODict
    /\ ret'.op = "ComputerManager.load" =>
           /\ ret'.value = "None"
           /\ NoMappingIn(machines_file) => computers' = EmptyDict
    /\ ret'.op = "ConfigManager.__init__" =>
           /\ ret'.value = "None"
           /\ config_file'.kind # "absent"
           /\ NoMappingIn(config_file) => config' = EmptyODict

C20_LoadNeverPropagates == [][C20_LoadStep]_vars

----------------------------------------------------------------------------
(* ComputerManager.get_all_computers and the caller of it                  *)
(* (core/machines.py 136-139)                                              *)

(* dict.copy(): a new dict whose keys are bound to the same record objects *)
dict_copy(comps) == [taken |-> TRUE, shared |-> DOMAIN comps, own |-> EmptyDict]

(* The keys of the dict the caller holds *)
returned_keys == returned.shared \cup DOMAIN returned.own

GetAllComputers ==
    /\ pc = "idle"
    /\ returned' = dict_copy(computers)
    /\ ret' = [op |-> "ComputerManager.get_all_computers", value |-> "dict",
               saved |-> "none"]
    /\ log' = {"debug"}
    /\ UNCHANGED <<cfg_vars, dev_vars, reg_vars, write_failures, core_vars,
                   threads, singletons>>

(* The caller's  all_computers[identifier] = record  *)
CallerSetDevice(identifier, record) ==
    /\ returned.taken
    /\ returned' = [returned EXCEPT !.shared = @ \ {identifier},
                                    !.own = DictPut(@, identifier, record)]
    /\ ret' = [op |-> "caller.set_device", value |-> "None", saved |-> "none"]
    /\ log' = {}
    /\ UNCHANGED <<cfg_vars, dev_vars, reg_vars, write_failures, core_vars,
                   threads, singletons>>

(* The caller's  del all_computers[identifier]  *)
CallerDelDevice(identifier) ==
    /\ returned.taken
    /\ identifier \in returned_keys
    /\ returned' = [returned EXCEPT !.shared = @ \ {identifier},
                                    !.own = DictDrop(@, identifier)]
    /\ ret' = [op |-> "caller.del_device", value |-> "None", saved |-> "none"]
    /\ log' = {}
    /\ UNCHANGED <<cfg_vars, dev_vars, reg_vars, write_failures, core_vars,
                   threads, singletons>>

(* The caller's  all_computers[identifier][service_name] = service_data:   *)
(* the record is the object the store is bound to unless the caller bound  *)
(* the key itself.                                                         *)
CallerSetEntry(identifier, service_name, service_data) ==
    /\ returned.taken
    /\ identifier \in returned_keys
    /\ IF identifier \in returned.shared
       THEN /\ computers' = [computers EXCEPT ![identifier] =
                                DictPut(@, service_name, service_data)]
            /\ UNCHANGED returned
       ELSE /\ returned' = [returned EXCEPT !.own[identifier] =
                                DictPut(@, service_name, service_data)]
            /\ UNCHANGED computers
    /\ ret' = [op |-> "caller.set_entry", value |-> "None", saved |-> "none"]
    /\ log' = {}
    /\ UNCHANGED <<cfg_vars, machines_file, reg_vars, write_failures, core_vars,
                   threads, singletons>>

(* The caller's  del all_computers[identifier][service_name]  *)
CallerDelEntry(identifier, service_name) ==
    /\ returned.taken
    /\ identifier \in returned_keys
    /\ IF identifier \in returned.shared
       THEN /\ service_name \in DOMAIN computers[identifier]
            /\ computers' = [computers EXCEPT ![identifier] =
                                DictDrop(@, service_name)]
            /\ UNCHANGED returned
       ELSE /\ service_name \in DOMAIN returned.own[identifier]
            /\ returned' = [returned EXCEPT !.own[identifier] =
                                DictDrop(@, service_name)]
            /\ UNCHANGED computers
    /\ ret' = [op |-> "caller.del_entry", value |-> "None", saved |-> "none"]
    /\ log' = {}
    /\ UNCHANGED <<cfg_vars, machines_file, reg_vars, write_failures, core_vars,
                   threads, singletons>>

(* The Device Store and a caller that keeps what get_all_computers         *)
(* returned.  The calls that bind a key of ComputerManager.computers anew  *)
(* (remove_computer, clear_all, load) are taken while the caller shares no *)
(* record that they unbind.                                                *)
CopyInit ==
    /\ manager = "ComputerManager"
    /\ config = EmptyODict
    /\ github_uploader = FALSE
    /\ StoresInit
    /\ ScanIdle

(* What the caller and the store's other callers write in these runs *)
CallerData == {[vendor |-> "acme"]}
StoredRecords == {[n \in {"CPU"} |-> [model |-> "i5"]]}

CopyNext ==
    \/ GetAllComputers
    \/ \E i \in Identifiers : CallerSetDevice(i, EmptyDict)
    \/ \E i \in Identifiers : CallerDelDevice(i)
    \/ \E i \in Identifiers, d \in CallerData : CallerSetEntry(i, "NET", d)
    \/ \E i \in Identifiers, n \in ServiceNames : CallerDelEntry(i, n)
    \/ \E i \in Identifiers, d \in StoredRecords, fs_ok \in FsAnswers :
          AddComputer(i, d, fs_ok)
    \/ \E i \in Identifiers, fs_ok \in FsAnswers :
          i \notin returned.shared /\ RemoveComputer(i, fs_ok)
    \/ \E fs_ok \in FsAnswers : returned.shared = {} /\ ClearAll(fs_ok)

CopySpec == CopyInit /\ [][CopyNext]_vars

(* The statements a caller makes on the dict it holds *)
CallerSteps ==
    {"caller.set_device", "caller.del_device", "caller.set_entry",
     "caller.del_entry"}

(* C21: whatever the caller adds, changes or removes in the dict that      *)
(* get_all_computers returned, devices or entries of a device, the Device  *)
(* Store's in-memory state stays what it was, and so does the document a   *)
(* later save writes.                                                      *)
C21_CallerStep ==
    ret'.op \in CallerSteps =>
        computers' = computers /\ json_dump(computers') = json_dump(computers)

C21_ReturnedDictIsDefensive == [][C21_CallerStep]_vars

----------------------------------------------------------------------------
(* What a scan run does to the Device Store *)

(* the Device Store holds an entry of collector c for device d *)
HasEntry(comps, d, c) == d \in DOMAIN comps /\ c \in DOMAIN comps[d]

(* the entry of c for d is new or has changed in this step *)
EntryWritten(d, c) ==
    /\ HasEntry(computers', d, c)
    /\ HasEntry(computers, d, c) => computers'[d][c] # computers[d][c]

(* a step of the loop body, for the collector enabled_services[idx] *)
CollectorStep == pc = "collect" /\ idx' = idx + 1

(* the collector of this step returned, with saving on, a payload that     *)
(* contains d                                                              *)
SavedPayloadHas(d) ==
    LET t == trace'[enabled_services[idx]]
    IN  save /\ t.outcome = "ok" /\ d \in device_keys(t.payload)

(* C22: a scan run changes the Device Store only at entries [d][c] of a    *)
(* collector c that succeeded, with saving on, with a payload containing   *)
(* d; a step for a collector that failed, returned an empty payload or ran *)
(* with save = false leaves the store and its file alone, and so do the    *)
(* steps that begin and end the run; no step removes a device or an entry  *)
(* written earlier.                                                        *)
C22_RunStep ==
    /\ \A d \in Identifiers, c \in ServiceNames :
          /\ HasEntry(computers, d, c) => HasEntry(computers', d, c)
          /\ EntryWritten(d, c) =>
                CollectorStep /\ c = enabled_services[idx] /\ SavedPayloadHas(d)
    /\ DOMAIN computers \subseteq DOMAIN computers'
    /\ \A d \in DOMAIN computers' \ DOMAIN computers :
          CollectorStep /\ SavedPayloadHas(d)
    /\ ~(CollectorStep /\ \E d \in Identifiers : SavedPayloadHas(d)) =>
          computers' = computers /\ machines_file' = machines_file

C22_RunWritesOnlySavedPayloads == [][C22_RunStep]_vars

(* the second collector of a run has added its entry to the device the    *)
(* first one had written, and the entry of the first is still there        *)
C22_Witness ==
    /\ pc = "idle"
    /\ HasEntry(computers, "m1", "CPU")
    /\ HasEntry(computers, "m1", "NET")
    /\ computers["m1"]["CPU"].last_scan # computers["m1"]["NET"].last_scan
    /\ "m2" \notin DOMAIN computers
    /\ store_calls = 2

----------------------------------------------------------------------------
(* Repeated scans of one collector *)

(* Payloads of a device with different fields from scan to scan *)
RescanPayloads ==
    {[model |-> "i7", service |-> "x"], [serial |-> "s1"], [scalar |-> "n/a"]}

RescanResults == UNION {[S -> RescanPayloads] : S \in SUBSET {"m1"}}

RescanInit ==
    /\ manager = "Scanner"
    /\ config = OPut(EmptyODict, "CPU", EmptyDict)
    /\ github_uploader = FALSE
    /\ StoresInit
    /\ ScanIdle

RescanNext ==
    \/ \E s \in BOOLEAN : RunBegin(s, "False")
    \/ \E o \in Outcomes, r \in RescanResults, fs_ok \in FsAnswers :
          RunCollector(o, r, 1, "boom", fs_ok)
    \/ RunFinish({})

RescanSpec == RescanInit /\ [][RescanNext]_vars

(* the entry is the payload with service and last_scan set over it, and    *)
(* nothing else                                                            *)
IsScanEntry(entry, payload, c, date) ==
    /\ DOMAIN entry = DOMAIN payload \cup {"last_scan", "service"}
    /\ entry.service = c
    /\ entry.last_scan = date
    /\ \A f \in DOMAIN payload \ {"last_scan", "service"} : entry[f] = payload[f]

(* C27 as claimed: when a collector c succeeds with saving on, the entry   *)
(* [d][c] of every device d of its payload becomes that payload with       *)
(* service = c and last_scan = the execution's timestamp, nothing of the   *)
(* entry an older scan wrote being kept; every entry of the store has its  *)
(* collector's name as service.                                            *)
C27_StepAsClaimed ==
    LET c == enabled_services[idx]
        t == trace'[c]
    IN  (CollectorStep /\ save /\ t.outcome = "ok") =>
            \A d \in device_keys(t.payload) :
                /\ HasEntry(computers', d, c)
                /\ IsScanEntry(computers'[d][c], t.payload[d], c, t.date)

ServiceFieldIsKey ==
    \A d \in DOMAIN computers : \A c \in DOMAIN computers[d] :
        computers[d][c].service = c

C27_EntryIsLatestPayload == [][C27_StepAsClaimed]_vars /\ []ServiceFieldIsKey

(* C27 as amended: the same for every device d whose payload is a mapping; *)
(* the entry of a device whose payload is not a mapping, and every entry   *)
(* of another collector or device, is left as it was.                      *)
C27_Step ==
    LET c == enabled_services[idx]
        t == trace'[c]
    IN  /\ (CollectorStep /\ save /\ t.outcome = "ok") =>
              \A d \in recorded_identifiers(t.payload) :
                  /\ HasEntry(computers', d, c)
                  /\ IsScanEntry(computers'[d][c], t.payload[d], c, t.date)
        /\ \A d \in Identifiers, n \in ServiceNames :
              EntryWritten(d, n) =>
                  /\ CollectorStep /\ save /\ t.outcome = "ok" /\ n = c
                  /\ d \in recorded_identifiers(t.payload)

C27_EntryIsLatestMappingPayload == [][C27_Step]_vars /\ []ServiceFieldIsKey

(* the second scan of the collector has replaced the entry of the first    *)
(* by a payload with other fields                                          *)
C27_Witness ==
    /\ RunDone
    /\ save
    /\ clock = 2
    /\ HasEntry(computers, "m1", "CPU")
    /\ computers["m1"]["CPU"] = [serial |-> "s1", last_scan |-> 2, service |-> "CPU"]

----------------------------------------------------------------------------
(* Failures while a result is recorded in the Device Store *)

(* in this step _save_service_results was called and met an exception in   *)
(* its loop, or a write of the device file was refused                     *)
RecordingFailed ==
    LET t == trace'[enabled_services[idx]]
    IN  /\ CollectorStep
        /\ saves(save, t.outcome, t.payload)
        /\ ~IsDict(t.payload) \/ write_failures' > write_failures

(* C29: a failure while a collector's result is recorded in the Device     *)
(* Store leaves that collector's result entry successful, with its         *)
(* payload; the run goes on with the next collector, or to the export      *)
(* after the last; no later step of the run changes an entry of the        *)
(* result; and when the run has returned every enabled collector has been  *)
(* attempted.                                                              *)
C29_Step ==
    LET c == enabled_services[idx]
    IN  /\ RecordingFailed =>
              /\ c \in DOMAIN results'.map
              /\ results'.map[c].success
              /\ results'.map[c].data = trace'[c].payload
              /\ pc' = IF idx < Len(enabled_services) THEN "collect" ELSE "export"
              /\ enabled_services' = enabled_services
        /\ pc \in {"collect", "export"} =>
              \A n \in DOMAIN results.map :
                  n \in DOMAIN results'.map /\ results'.map[n] = results.map[n]

AllAttempted == RunDone => Enabled \subseteq DOMAIN trace

C29_RecordingFailureContained == [][C29_Step]_vars /\ []AllAttempted

(* the first collector returned a value that is not a mapping, the write   *)
(* for the second was refused: both entries are successful and the run     *)
(* has returned                                                            *)
C29_Witness ==
    /\ RunDone
    /\ save
    /\ Len(enabled_services) = 2
    /\ \A c \in Enabled :
          /\ Succeeded(c)
          /\ results.map[c].success
          /\ results.map[c].data = trace[c].payload
    /\ ~IsDict(trace[enabled_services[1]].payload)
    /\ recorded_identifiers(trace[enabled_services[2]].payload) # {}
    /\ write_failures = 1
    /\ machines_file # json_dump(computers)

----------------------------------------------------------------------------
(* The fields of the entries of a run's result *)

EntryFields == {"data", "execution_time", "execution_date", "success"}

(* C23: every entry of the result of a run, of a successful and of a       *)
(* failed collector alike, has the payload, the execution duration, the    *)
(* execution timestamp and the success flag; a failed one has the error    *)
(* text as well.                                                           *)
C23_EveryEntryHasAllFields ==
    \A c \in DOMAIN results.map :
        /\ EntryFields \subseteq DOMAIN results.map[c]
        /\ ~results.map[c].success => "error" \in DOMAIN results.map[c]

----------------------------------------------------------------------------
(* Refused writes under the mutating calls of the Service Registry *)

RegistryMutators == {"ServiceManager.add_service", "ServiceManager.remove_service"}

(* C24: when the write of the backing file is refused during a mutating    *)
(* call, the refusal is logged and the call returns to its caller without  *)
(* raising.                                                                *)
C24_MutatingStep ==
    (ret'.op \in RegistryMutators /\ write_failures' > write_failures) =>
        "error" \in log' /\ ret'.value # "raised"

C24_WriteFailureLoggedNotRaised == [][C24_MutatingStep]_vars

----------------------------------------------------------------------------
(* The order of a run *)

(* One pass of the loop body, and the export step *)
Collect ==
    \E o \in Outcomes, r \in ScanResults, t \in Durations, e \in ErrorTexts,
       fs_ok \in FsAnswers : RunCollector(o, r, t, e, fs_ok)

Finish == \E f \in SUBSET UploadFiles : RunFinish(f)

(* Runs over the Config Stores whose collectors have no options set: the   *)
(* order of a run does not read them                                       *)
OrderInit ==
    /\ manager = "Scanner"
    /\ config \in {c \in Configs : \A n \in DOMAIN c.map : c.map[n] = EmptyDict}
    /\ github_uploader \in BOOLEAN
    /\ StoresInit
    /\ ScanIdle

(* run is one thread of straight-line code: a pass of the loop body whose  *)
(* collect() returns or raises is completed, and so is the export step.    *)
FairSpec == OrderInit /\ [][Next]_vars /\ WF_vars(Collect) /\ WF_vars(Finish)

(* the collectors attempted so far are the first idx - 1 of the enabled    *)
(* list, each executed and recorded; the list has no name twice; the       *)
(* export step is reached after the last name only                         *)
InOrder ==
    pc \in {"collect", "export"} =>
        /\ idx \in 1..(Len(enabled_services) + 1)
        /\ DOMAIN trace = {enabled_services[i] : i \in 1..(idx - 1)}
        /\ \A c \in DOMAIN trace : ExecutedAndRecorded(c)
        /\ \A i \in 1..Len(enabled_services), j \in 1..Len(enabled_services) :
              enabled_services[i] = enabled_services[j] => i = j
        /\ pc = "collect" => idx <= Len(enabled_services)
        /\ pc = "export" => idx = Len(enabled_services) + 1
        /\ ~upload.attempted

(* a pass attempts the next name of the list, which was not attempted      *)
(* before, and no other; no other step attempts a collector                *)
C25_Step ==
    IF CollectorStep
    THEN /\ enabled_services[idx] \notin DOMAIN trace
         /\ DOMAIN trace' = DOMAIN trace \cup {enabled_services[idx]}
         /\ \A c \in DOMAIN trace : trace'[c] = trace[c]
    ELSE pc # "idle" => trace' = trace

(* C25: within a run the collectors are processed one after another in the *)
(* order of the enabled list, each exactly once, a collector being         *)
(* attempted only when the ones before it are executed and recorded; the   *)
(* export step comes after the last collector; and the run returns when    *)
(* every collect() returns or raises.                                      *)
C25_SequentialAndTerminates ==
    /\ [][C25_Step]_vars
    /\ []InOrder
    /\ (pc # "idle") ~> RunDone

(* a run of two collectors has returned, both attempted *)
C25_Witness ==
    /\ RunDone
    /\ Len(enabled_services) = 2
    /\ DOMAIN trace = Enabled
    /\ idx = 3

----------------------------------------------------------------------------
(* storage.py: the helper that merges into data/machines.json *)

(* get_mac_address(): the identifier of the machine the program runs on *)
mac == "m1"

(* What callers pass as new_info: entries of different collectors *)
MachineInfos ==
    {[n \in {"CPU"} |-> [model |-> "i5"]], [n \in {"NET"} |-> [vendor |-> "acme"]]}

(* lines 18-35: the decoded document, or {} for a file that is missing,    *)
(* undecodable or unreadable                                               *)
load_data(file) == IF file.kind = "json" THEN file.value ELSE EmptyDict

(* lines 37-47: the document is written, or the refusal is logged and     *)
(* raised                                                                  *)
save_data(file, data, fs_ok) == write_json(file, data, fs_ok)

(* lines 60-71: data[mac] = {} if mac is new, then data[mac].update        *)
merge_info(data, new_info) ==
    LET d1 == IF mac \notin DOMAIN data THEN DictPut(data, mac, EmptyDict) ELSE data
    IN  DictPut(d1, mac, DictMerge(d1[mac], new_info))

(* update_machine_info up to line 58: the thread has read the file *)
UpdateMachineInfoLoad(t, new_info) ==
    /\ threads[t].pc # "loaded"
    /\ threads' = [threads EXCEPT ![t] =
                      [pc |-> "loaded", new_info |-> new_info,
                       data |-> load_data(machines_file)]]
    /\ ret' = [op |-> "storage.update_machine_info", value |-> "running",
               saved |-> "none"]
    /\ log' = {"debug", "info"}
    /\ UNCHANGED <<cfg_vars, dev_vars, reg_vars, write_failures, core_vars,
                   returned, singletons>>

(* update_machine_info from line 60: the merge into what was read, and the *)
(* write of the whole document                                             *)
UpdateMachineInfoSave(t, fs_ok) ==
    /\ threads[t].pc = "loaded"
    /\ machines_file' = save_data(machines_file,
                                  merge_info(threads[t].data, threads[t].new_info),
                                  fs_ok)
    /\ threads' = [threads EXCEPT ![t].pc = IF fs_ok THEN "done" ELSE "raised",
                                  ![t].data = EmptyDict]
    /\ write_failures' = write_failures + (IF fs_ok THEN 0 ELSE 1)
    /\ ret' = [op |-> "storage.update_machine_info",
               value |-> IF fs_ok THEN "None" ELSE "raised",
               saved |-> Saved(fs_ok)]
    /\ log' = IF fs_ok THEN {"debug", "info"} ELSE {"error"}
    /\ UNCHANGED <<cfg_vars, computers, reg_vars, core_vars, returned, singletons>>

(* Two threads that call update_machine_info *)
HelperInit ==
    /\ manager = "storage"
    /\ config = EmptyODict
    /\ github_uploader = FALSE
    /\ StoresInit
    /\ ScanIdle

HelperNext ==
    \/ \E t \in Threads, i \in MachineInfos : UpdateMachineInfoLoad(t, i)
    \/ \E t \in Threads, fs_ok \in FsAnswers : UpdateMachineInfoSave(t, fs_ok)

HelperSpec == HelperInit /\ [][HelperNext]_vars

(* the document of the file has the entries of new_info under mac *)
InFile(file, new_info) ==
    /\ file.kind = "json"
    /\ mac \in DOMAIN file.value
    /\ \A k \in DOMAIN new_info :
          k \in DOMAIN file.value[mac] /\ file.value[mac][k] = new_info[k]

(* no two threads are between their read of the file and their write *)
MutuallyExclusive == ~(\A t \in Threads : threads[t].pc = "loaded")

(* when the calls of both threads have returned, the entries of both are   *)
(* in the file                                                             *)
BothUpdatesInFile ==
    (\A t \in Threads : threads[t].pc = "done") =>
        \A t \in Threads : InFile(machines_file, threads[t].new_info)

(* C26: two concurrent update_machine_info calls are never both between    *)
(* their read of the file and their write of it, and when both have        *)
(* returned the file has the entries of both.                              *)
C26_NoLostUpdate == MutuallyExclusive /\ BothUpdatesInFile

----------------------------------------------------------------------------
(* The helper and the ComputerManager on the same file *)

WritersInit ==
    /\ manager = "ComputerManager"
    /\ config = EmptyODict
    /\ github_uploader = FALSE
    /\ StoresInit
    /\ ScanIdle

(* The helper writes the NET entry of this machine, the manager's callers  *)
(* write CPU entries: no call of the one replaces an entry of the other.   *)
WritersNext ==
    \/ UpdateMachineInfoLoad("t1", [n \in {"NET"} |-> [vendor |-> "acme"]])
    \/ \E fs_ok \in FsAnswers : UpdateMachineInfoSave("t1", fs_ok)
    \/ ComputerLoad
    \/ \E i \in Identifiers, fs_ok \in FsAnswers :
          AddComputer(i, [n \in {"CPU"} |-> [model |-> "i5"]], fs_ok)
    \/ \E i \in Identifiers, d \in ServiceData, fs_ok \in FsAnswers :
          UpdateServiceData(i, "CPU", d, fs_ok)
    \/ \E i \in Identifiers, fs_ok \in FsAnswers : RemoveComputer(i, fs_ok)
    \/ \E fs_ok \in FsAnswers : ClearAll(fs_ok)

WritersSpec == WritersInit /\ [][WritersNext]_vars

(* a mutating call of the ComputerManager that is not remove_computer of   *)
(* this machine and not clear_all                                          *)
KeepingCall(r) ==
    \/ r.op \in {"ComputerManager.add_computer",
                 "ComputerManager.update_service_data"}
    \/ r.op = "ComputerManager.remove_computer" /\ r.args.identifier # mac

(* C28: what update_machine_info has merged into the file is still in the  *)
(* file after a mutating call of the ComputerManager, other than           *)
(* remove_computer of that device and clear_all.                           *)
C28_Step ==
    (/\ KeepingCall(ret')
     /\ threads["t1"].pc = "done"
     /\ InFile(machines_file, threads["t1"].new_info)) =>
        InFile(machines_file', threads["t1"].new_info)

C28_WritersAgree == [][C28_Step]_vars

----------------------------------------------------------------------------
(* utils/singleton.py: the shared instances and their construction *)

(* Arguments of a call of a decorated class; an instance is named by the   *)
(* arguments it was constructed with.                                      *)
CtorArgs == {"a1", "a2"}

(* The instances Scanner.__init__ reads (scanner.py 13-15) *)
Collaborators == {"AppLogger", "ConfigManager", "ComputerManager"}

(* Whether the constructor of cls raises: Scanner.__init__ raises          *)
(* ImportError when a collaborator's instance is empty (scanner.py 17-18), *)
(* the stores raise RuntimeError when AppLogger's is (configManager.py     *)
(* 19-22, machines.py 20-23); other_failure is any other exception of a    *)
(* constructor.                                                            *)
constructor_raises(cls, insts, other_failure) ==
    \/ other_failure
    \/ cls = "Scanner" /\ \E c \in Collaborators : insts[c].instance = "None"
    \/ /\ cls \in {"ConfigManager", "ComputerManager"}
       /\ insts["AppLogger"].instance = "None"

(* Variant: a call with other arguments constructs another object *)
Singleton_call_per_args(s, args, raises) ==
    IF s.instance = "None" \/ s.instance # args
    THEN IF raises THEN s
         ELSE [instance |-> args, constructions |-> s.constructions + 1]
    ELSE s

(* lines 17-20: __call__ constructs when instance is None, and binds       *)
(* instance only when the constructor returns                              *)
Singleton_call(s, args, raises) ==
    IF s.instance = "None"
    THEN IF raises THEN s
         ELSE [instance |-> args, constructions |-> s.constructions + 1]
    ELSE s

SingletonCall(cls, args, other_failure) ==
    LET s == singletons[cls]
        raises == constructor_raises(cls, singletons, other_failure)
        s2 == Singleton_call(s, args, raises)
    IN  /\ s.constructions < MaxConstructions
        /\ s2 = s /\ s.instance # "None" => ~other_failure
        /\ singletons' = [singletons EXCEPT ![cls] = s2]
        /\ ret' = [op |-> "Singleton.__call__",
                   value |-> IF s2.instance = "None" THEN "raised" ELSE s2.instance,
                   saved |-> "none",
                   args |-> [cls |-> cls, args |-> args]]
        /\ log' = {}
        /\ UNCHANGED <<cfg_vars, dev_vars, reg_vars, write_failures, core_vars,
                       returned, threads>>

SingletonInit ==
    /\ manager = "Singleton"
    /\ config = EmptyODict
    /\ github_uploader = FALSE
    /\ StoresInit
    /\ ScanIdle

SingletonNext ==
    \E cls \in Classes, a \in CtorArgs, f \in BOOLEAN : SingletonCall(cls, a, f)

SingletonSpec == SingletonInit /\ [][SingletonNext]_vars

(* a call of a class that has its instance constructs nothing and returns  *)
(* that instance; a call of a class that has none leaves the attribute     *)
(* empty when it raises and returns the object now bound otherwise; a call *)
(* of Scanner while a collaborator is missing raises; no call touches      *)
(* another class                                                           *)
C30_Step ==
    ret'.op = "Singleton.__call__" =>
        LET cls == ret'.args.cls
            before == singletons[cls]
            after == singletons'[cls]
        IN  /\ before.instance # "None" =>
                  after = before /\ ret'.value = before.instance
            /\ before.instance = "None" =>
                  \/ ret'.value = "raised" /\ after = before
                  \/ /\ ret'.value = after.instance
                     /\ after.instance # "None"
                     /\ after.constructions = 1
            /\ (cls = "Scanner" /\
                \E c \in Collaborators : singletons[c].instance = "None") =>
                  ret'.value = "raised" /\ after.instance = "None"
            /\ \A c \in Classes \ {cls} : singletons'[c] = singletons[c]

(* a class has constructed at most one object, and none exactly while its  *)
(* instance attribute is empty; a Scanner exists only with its             *)
(* collaborators                                                           *)
OneInstance ==
    /\ \A c \in Classes :
          /\ singletons[c].constructions <= 1
          /\ singletons[c].instance = "None" <=> singletons[c].constructions = 0
    /\ singletons["Scanner"].instance # "None" =>
          \A c \in Collaborators : singletons[c].instance # "None"

(* C30: for each decorated class at most one instance is ever constructed  *)
(* and every later call returns it whatever the arguments; the instance    *)
(* attribute is empty until the first construction that returns, also      *)
(* after one that raised; Scanner constructed before AppLogger,            *)
(* ConfigManager and ComputerManager raises.                               *)
C30_InitBeforeUse == [][C30_Step]_vars /\ []OneInstance

(* the Scanner exists, and ConfigManager called with other arguments has   *)
(* returned the instance of its first call                                 *)
C30_Witness ==
    /\ singletons["Scanner"].instance # "None"
    /\ ret.op = "Singleton.__call__"
    /\ ret.args = [cls |-> "ConfigManager", args |-> "a2"]
    /\ ret.value = "a1"

====
